---- MODULE Spec2Model ----
(***************************************************************************)
(* A model of the Roxy Discord bot (nextcord cogs).                        *)
(*                                                                         *)
(*   - cogs/prefix.py      per-guild command prefixes: the guild_prefixes  *)
(*                         table and the in-memory prefix_cache            *)
(*   - cogs/power.py       owner-gated restart / shutdown behind a code    *)
(*   - cogs/moderation.py  kick / ban / unban / warn / timeout / untimeout *)
(*                         and the per-guild case tables                   *)
(*   - cogs/music.py       the queue, the player events and the inactivity *)
(*                         timer of a guild; skip, stop and volume         *)
(*   - cogs/error_handler.py, cogs/eng.py                                  *)
(*                         what a message that names a command is answered *)
(*                         with, and the vocabulary table                  *)
(*   - cogs/mod_ping.py    the Assign and Close buttons of a help request  *)
(*   - cogs/help.py        the pages and the category of the help menu     *)
(*   - cogs/purge.py       hardpurge: confirm, recreate, delete            *)
(*                                                                         *)
(* The bot is one asyncio process: a handler runs without interruption     *)
(* from one await to the next, so each action below is the code of one     *)
(* handler between two suspension points.  Answers of the platform and of  *)
(* SQLite (errors included) are inputs, drawn with \E.                     *)
(***************************************************************************)
EXTENDS Integers, Sequences, FiniteSets, Bags, TLC

VARIABLES
    \* ---- cogs/prefix.py ----
    guild_prefixes,   \* rows of table guild_prefixes: a set of <<guild_id, prefix>>
    prefix_cache,     \* DynamicPrefix.prefix_cache: guild_id -> set of prefixes (partial)
    prefix_replies,   \* bag of the ctx.send calls of prefix commands still in flight
    \* ---- cogs/power.py ----
    power,            \* the invocations of restart / shutdown, one record per invocation
    process,          \* the bot process: "running", "replaced" (os.execv) or "closed"
    \* ---- cogs/moderation.py ----
    cases,            \* tables cases_<guild_id>: guild_id -> set of rows (partial)
    sqlite_sequence,  \* AUTOINCREMENT: guild_id -> largest case_id ever used (partial)
    mod_log_channels, \* tables mod_log_channels_<guild_id>: guild_id -> channel or None
    mod,              \* the invocations of moderation commands, one record each
    \* ---- cogs/music.py ----
    guild_states,     \* MusicCog.guild_states: guild_id -> GuildMusicState (partial)
    voice,            \* guild.voice_client and its mafic player, per guild
    tasks,            \* the disconnect_after_timeout tasks, one record per task
    plays,            \* the invocations of the play command, one record per invocation
    leaving,          \* guilds whose disconnect command awaits player.disconnect()
    autoplaying,      \* the play_next calls that await the autoplay search
    played,           \* guild_id -> the queued tracks handed to player.play, in order
    appended,         \* how many tracks the play command has put into queues so far
    controls,         \* the invocations of skip, stop and volume, one record each
    ending,           \* guilds whose node has sent a TrackEndEvent not yet dispatched
    starting,         \* guild_id -> the tracks whose player.play() has not returned
    player_volume,    \* guild_id -> the volume the cog has set on the guild's player, if any
    library,          \* what mafic.Player does where the cog's code does not decide it
    \* ---- cogs/error_handler.py, cogs/eng.py ----
    gemini_api_key,   \* utils.config.GEMINI_API_KEY is set
    model,            \* EnglishLearning.model is not None
    vocabulary,       \* rows of table vocabulary: records [id, user_id, word]
    saved,            \* the <<user_id, word>> that vocab save reported as saved
    handled,          \* the last message processed and what processing it did
    \* ---- cogs/mod_ping.py ----
    request,          \* the HelpRequestView of a help request and its message
    clicks,           \* the button interactions on that message, one record each
    \* ---- cogs/help.py ----
    menu,             \* the HelpMenu view of one help message
    presses,          \* the interactions with its buttons and its dropdown, one record each
    \* ---- cogs/purge.py ----
    hardpurges,       \* the invocations of hardpurge, one record each
    old_channel,      \* the channel they were invoked in: "exists" or "deleted"
    new_channels      \* how many replacement channels were created

prefixVars == <<guild_prefixes, prefix_cache, prefix_replies>>
powerVars == <<power, process>>
modVars == <<cases, sqlite_sequence, mod_log_channels, mod>>
musicVars ==
    <<guild_states, voice, tasks, plays, leaving, autoplaying, played, appended,
      controls, ending, starting, player_volume, library>>
cmdVars == <<gemini_api_key, model, vocabulary, saved, handled>>
modpingVars == <<request, clicks>>
helpVars == <<menu, presses>>
purgeVars == <<hardpurges, old_channel, new_channels>>
uiVars == <<request, clicks, menu, presses, hardpurges, old_channel, new_channels>>

vars == <<guild_prefixes, prefix_cache, prefix_replies, power, process,
          cases, sqlite_sequence, mod_log_channels, mod,
          guild_states, voice, tasks, plays, leaving, autoplaying, played, appended,
          controls, ending, starting, player_volume, library,
          gemini_api_key, model, vocabulary, saved, handled,
          request, clicks,
          menu, presses,
          hardpurges, old_channel, new_channels>>

\* The cogs that a specification leaves out never run in it.
Empty == [x \in {} |-> x]
PrefixUnused ==
    guild_prefixes = {} /\ prefix_cache = Empty /\ prefix_replies = EmptyBag
PowerUnused == power = Empty /\ process = "running"
ModUnused ==
    cases = Empty /\ sqlite_sequence = Empty /\ mod_log_channels = Empty /\ mod = Empty
MusicUnused ==
    /\ guild_states = Empty /\ voice = Empty /\ tasks = Empty /\ plays = Empty
    /\ leaving = {} /\ autoplaying = Empty /\ played = Empty /\ appended = 0
    /\ controls = Empty /\ ending = {} /\ starting = Empty /\ player_volume = Empty
    /\ library = Empty
CmdUnused ==
    /\ gemini_api_key = FALSE /\ model = FALSE /\ vocabulary = {} /\ saved = {}
    /\ handled = Empty
ModPingUnused == request = Empty /\ clicks = Empty
HelpUnused == menu = Empty /\ presses = Empty
PurgeUnused == hardpurges = Empty /\ old_channel = Empty /\ new_channels = Empty
UiUnused == ModPingUnused /\ HelpUnused /\ PurgeUnused

(***************************************************************************)
(*                         cogs/prefix.py                                  *)
(***************************************************************************)

Guilds == {1, 2}

\* Bounds of the prefix model.
NumPre == 8          \* custom prefixes a guild may already hold when the cog loads
MaxInFlight == 2     \* prefix commands suspended in ctx.send at the same time

default_prefix == "i."

\* Prefixes a guild may hold in the table when the bot starts.
PreStored == {"p" \o ToString(k) : k \in 1..NumPre}

\* Arguments users type for prefix add / prefix remove.
InputPrefixes == {"!", "?", "i.", "", "abcdefghijk"}

\* The custom prefixes stored for a guild (SELECT ... WHERE guild_id = ?).
Stored(guild_id) == {row[2] : row \in {r \in guild_prefixes : r[1] = guild_id}}

\* list(some_set): a set listed in some order.
RECURSIVE ListOf(_)
ListOf(S) == IF S = {} THEN <<>>
             ELSE LET x == CHOOSE y \in S : TRUE IN <<x>> \o ListOf(S \ {x})

\* load_prefixes: one cache entry per guild that has rows.
load_prefixes(rows) ==
    [g \in {r[1] : r \in rows} |-> {r[2] : r \in {q \in rows : q[1] = g}}]

\* get_prefix(bot, message) for a message of guild guild_id.
get_prefix(guild_id) ==
    IF guild_id \in DOMAIN prefix_cache /\ prefix_cache[guild_id] # {}
    THEN <<default_prefix>> \o ListOf(prefix_cache[guild_id])
    ELSE <<default_prefix>>

\* get_all_prefixes(guild_id)
get_all_prefixes(guild_id) ==
    IF guild_id \in DOMAIN prefix_cache
    THEN <<default_prefix>> \o ListOf(prefix_cache[guild_id])
    ELSE <<default_prefix>>

\* prefix_cache with prefix_val added to the guild's set (setdefault + add).
CacheAdd(guild_id, prefix_val) ==
    [g \in DOMAIN prefix_cache \cup {guild_id} |->
        IF g = guild_id
        THEN (IF g \in DOMAIN prefix_cache THEN prefix_cache[g] ELSE {}) \cup {prefix_val}
        ELSE prefix_cache[g]]

\* (mutant) add_prefix_to_db without its SELECT: an INSERT OR REPLACE.
add_prefix_to_db_no_select(guild_id, prefix_val, db_error) ==
    IF db_error
    THEN [ret |-> FALSE, rows |-> guild_prefixes, cache |-> prefix_cache]
    ELSE [ret |-> TRUE,
          rows |-> guild_prefixes \cup {<<guild_id, prefix_val>>},
          cache |-> CacheAdd(guild_id, prefix_val)]

\* add_prefix_to_db: the value returned and the table and cache it leaves.
\* db_error: sqlite3.Error was raised (the connection rolls back).
add_prefix_to_db(guild_id, prefix_val, db_error) ==
    IF db_error \/ <<guild_id, prefix_val>> \in guild_prefixes
    THEN [ret |-> FALSE, rows |-> guild_prefixes, cache |-> prefix_cache]
    ELSE [ret |-> TRUE,
          rows |-> guild_prefixes \cup {<<guild_id, prefix_val>>},
          cache |-> CacheAdd(guild_id, prefix_val)]

\* (mutant) remove_prefix_from_db that forgets the cache.
remove_prefix_from_db_stale(guild_id, prefix_val, db_error) ==
    IF db_error \/ <<guild_id, prefix_val>> \notin guild_prefixes
    THEN [ret |-> FALSE, rows |-> guild_prefixes, cache |-> prefix_cache]
    ELSE [ret |-> TRUE,
          rows |-> guild_prefixes \ {<<guild_id, prefix_val>>},
          cache |-> prefix_cache]

\* remove_prefix_from_db: DELETE one row, then drop it from the cache.
remove_prefix_from_db(guild_id, prefix_val, db_error) ==
    IF db_error \/ <<guild_id, prefix_val>> \notin guild_prefixes
    THEN [ret |-> FALSE, rows |-> guild_prefixes, cache |-> prefix_cache]
    ELSE [ret |-> TRUE,
          rows |-> guild_prefixes \ {<<guild_id, prefix_val>>},
          cache |-> IF guild_id \in DOMAIN prefix_cache
                    THEN [prefix_cache EXCEPT ![guild_id] = @ \ {prefix_val}]
                    ELSE prefix_cache]

\* A reply being sent: the command, its guild and argument, the text, and
\* whether the handler opened the database before replying.
Reply(cmd, guild_id, arg, text, db) ==
    [cmd |-> cmd, guild |-> guild_id, arg |-> arg, text |-> text, db |-> db]

Send(reply) ==
    /\ BagCardinality(prefix_replies) < MaxInFlight
    /\ prefix_replies' = prefix_replies (+) SetToBag({reply})

\* (mutant) the limit check off by one.
prefix_limit_off_by_one(prefixes) == Len(prefixes) > 10

\* add_new_prefix's limit: the default prefix plus at most 9 custom ones.
prefix_limit_reached(prefixes) == Len(prefixes) >= 10

\* prefix add <new_prefix>
add_new_prefix(guild_id, new_prefix, db_error) ==
    LET prefixes == get_all_prefixes(guild_id)
        r == add_prefix_to_db(guild_id, new_prefix, db_error)
        InList(p, l) == \E i \in 1..Len(l) : l[i] = p
    IN
    IF new_prefix = "" THEN
        /\ Send(Reply("add", guild_id, new_prefix, "Prefix cannot be empty.", FALSE))
        /\ UNCHANGED <<guild_prefixes, prefix_cache>>
    ELSE IF Len(new_prefix) > 10 THEN
        /\ Send(Reply("add", guild_id, new_prefix, "Prefix is too long.", FALSE))
        /\ UNCHANGED <<guild_prefixes, prefix_cache>>
    ELSE IF prefix_limit_reached(prefixes) THEN
        /\ Send(Reply("add", guild_id, new_prefix,
                      "Maximum number of custom prefixes reached (9).", FALSE))
        /\ UNCHANGED <<guild_prefixes, prefix_cache>>
    ELSE IF new_prefix = default_prefix /\ InList(default_prefix, prefixes) THEN
        /\ Send(Reply("add", guild_id, new_prefix,
                      "is the default prefix and cannot be added again.", FALSE))
        /\ UNCHANGED <<guild_prefixes, prefix_cache>>
    ELSE
        /\ guild_prefixes' = r.rows
        /\ prefix_cache' = r.cache
        /\ Send(Reply("add", guild_id, new_prefix,
                      IF r.ret THEN "added successfully." ELSE "already exists.", TRUE))

\* (mutant) prefix remove without the guard on the default prefix.
remove_existing_prefix_unguarded(guild_id, prefix_to_remove, db_error) ==
    LET r == remove_prefix_from_db(guild_id, prefix_to_remove, db_error) IN
        /\ guild_prefixes' = r.rows
        /\ prefix_cache' = r.cache
        /\ Send(Reply("remove", guild_id, prefix_to_remove,
                      IF r.ret THEN "removed successfully."
                      ELSE "not found or is not a custom prefix.", TRUE))

\* prefix remove <prefix_to_remove>
remove_existing_prefix(guild_id, prefix_to_remove, db_error) ==
    LET r == remove_prefix_from_db(guild_id, prefix_to_remove, db_error) IN
    IF prefix_to_remove = default_prefix THEN
        /\ Send(Reply("remove", guild_id, prefix_to_remove,
                      "Cannot remove the default prefix", FALSE))
        /\ UNCHANGED <<guild_prefixes, prefix_cache>>
    ELSE
        /\ guild_prefixes' = r.rows
        /\ prefix_cache' = r.cache
        /\ Send(Reply("remove", guild_id, prefix_to_remove,
                      IF r.ret THEN "removed successfully."
                      ELSE "not found or is not a custom prefix.", TRUE))

\* prefix clear
clear_all_prefixes(guild_id, db_error) ==
    IF db_error THEN
        /\ Send(Reply("clear", guild_id, "", "Error clearing prefixes", TRUE))
        /\ UNCHANGED <<guild_prefixes, prefix_cache>>
    ELSE
        /\ guild_prefixes' = {r \in guild_prefixes : r[1] # guild_id}
        /\ prefix_cache' = IF guild_id \in DOMAIN prefix_cache
                           THEN [prefix_cache EXCEPT ![guild_id] = {}]
                           ELSE prefix_cache
        /\ Send(Reply("clear", guild_id, "", "All custom prefixes removed.", TRUE))

\* (mutant) on_guild_remove whose DELETE has no WHERE and that drops the cache.
on_guild_remove_all(guild_id, db_error) ==
    /\ guild_prefixes' = IF db_error THEN guild_prefixes ELSE {}
    /\ prefix_cache' = IF db_error THEN prefix_cache ELSE Empty
    /\ UNCHANGED prefix_replies

\* on_guild_remove(guild): the bot left the guild.  A sqlite3.Error is
\* printed and leaves table and cache as they were.
on_guild_remove(guild_id, db_error) ==
    /\ guild_prefixes' = IF db_error THEN guild_prefixes
                         ELSE {r \in guild_prefixes : r[1] # guild_id}
    /\ prefix_cache' = IF db_error THEN prefix_cache
                       ELSE [g \in DOMAIN prefix_cache \ {guild_id} |-> prefix_cache[g]]
    /\ UNCHANGED prefix_replies

\* A ctx.send of a prefix command completes.
ReplyDelivered(reply) ==
    /\ BagIn(reply, prefix_replies)
    /\ prefix_replies' = prefix_replies (-) SetToBag({reply})
    /\ UNCHANGED <<guild_prefixes, prefix_cache>>

PrefixInit ==
    /\ PowerUnused /\ ModUnused /\ MusicUnused /\ CmdUnused /\ UiUnused
    /\ \E loaded \in {{}, {1}} :
          guild_prefixes = {<<g, p>> : g \in loaded, p \in PreStored}
    /\ prefix_cache = load_prefixes(guild_prefixes)
    /\ prefix_replies = EmptyBag

AddNewPrefix == \E g \in Guilds, p \in InputPrefixes, e \in BOOLEAN : add_new_prefix(g, p, e)
RemoveExistingPrefix ==
    \E g \in Guilds, p \in InputPrefixes, e \in BOOLEAN : remove_existing_prefix(g, p, e)
ClearAllPrefixes == \E g \in Guilds, e \in BOOLEAN : clear_all_prefixes(g, e)
OnGuildRemove == \E g \in Guilds, e \in BOOLEAN : on_guild_remove(g, e)
PrefixReplyDelivered == \E r \in BagToSet(prefix_replies) : ReplyDelivered(r)

PrefixNext ==
    \/ AddNewPrefix /\ UNCHANGED <<powerVars, modVars, musicVars, cmdVars, uiVars>>
    \/ RemoveExistingPrefix /\ UNCHANGED <<powerVars, modVars, musicVars, cmdVars, uiVars>>
    \/ ClearAllPrefixes /\ UNCHANGED <<powerVars, modVars, musicVars, cmdVars, uiVars>>
    \/ OnGuildRemove /\ UNCHANGED <<powerVars, modVars, musicVars, cmdVars, uiVars>>
    \/ PrefixReplyDelivered /\ UNCHANGED <<powerVars, modVars, musicVars, cmdVars, uiVars>>

SpecPrefix == PrefixInit /\ [][PrefixNext]_vars


(***************************************************************************)
(*                          cogs/power.py                                  *)
(***************************************************************************)

\* Bound of the power model.
MaxPower == 2        \* invocations of restart / shutdown in one run

\* random.randint(100000, 999999)
CodeLow == 100000
CodeHigh == 999999

PowerIds == 1..MaxPower
Owner == "owner"
PowerUsers == {Owner, "mallory"}
PowerChannels == {"c1", "c2"}
\* The codes drawn in the model and what users type.
Codes == {CodeLow, CodeHigh}
Contents == {ToString(CodeLow), ToString(CodeHigh), "restart now"}

NoMessage == "<none>"

\* An invocation that was not made yet.
PowerIdle ==
    [cmd |-> "-", pc |-> "idle", author |-> "-", channel |-> "-", code |-> "-",
     outcome |-> "-", first |-> NoMessage, code_after |-> FALSE]

\* @commands.is_owner()
is_owner(user) == user = Owner

\* (mutant) the check of wait_for without the channel.
power_check_any_channel(inv, author, channel) == author = inv.author

\* def check(message): message.author == ctx.author and message.channel == ctx.channel
power_check(inv, author, channel) == author = inv.author /\ channel = inv.channel

\* restart_command / shutdown_command up to wait_for: the code is drawn and the
\* prompt is sent; a failed send raises out of the handler.
power_command(i, cmd, author, channel, number, send_ok) ==
    /\ process = "running"
    /\ power[i].pc = "idle"
    /\ \A j \in PowerIds : j < i => power[j].pc # "idle"
    /\ is_owner(author)
    /\ power' = [power EXCEPT ![i] =
                    [PowerIdle EXCEPT !.cmd = cmd, !.author = author,
                                      !.channel = channel,
                                      !.code = ToString(number),
                                      !.pc = IF send_ok THEN "wait" ELSE "done",
                                      !.outcome = IF send_ok THEN "-" ELSE "HTTPException"]]
    /\ UNCHANGED process

\* What a message does to one invocation: wait_for returns it when check
\* passes, and the handler compares its content with the code.  The fields
\* first and code_after record what the author typed in the invocation's
\* channel since the prompt, whatever the handler made of it.
power_on_message_inv(inv, author, channel, content) ==
    LET heard == inv.pc \in {"wait", "confirmed", "done"} /\ inv.outcome # "Timed Out"
                 /\ inv.outcome # "HTTPException"
                 /\ author = inv.author /\ channel = inv.channel
        seen == IF ~heard THEN inv
                ELSE IF inv.first = NoMessage THEN [inv EXCEPT !.first = content]
                ELSE IF content = inv.code THEN [inv EXCEPT !.code_after = TRUE]
                ELSE inv
    IN  IF inv.pc = "wait" /\ power_check(inv, author, channel)
        THEN IF content = inv.code
             THEN [seen EXCEPT !.pc = "confirmed"]
             ELSE [seen EXCEPT !.pc = "done", !.outcome = "Incorrect Code"]
        ELSE seen

\* A message event: every waiting invocation sees it.
power_on_message(author, channel, content) ==
    /\ process = "running"
    /\ power' = [i \in PowerIds |-> power_on_message_inv(power[i], author, channel, content)]
    /\ power' # power
    /\ UNCHANGED process

\* asyncio.TimeoutError: 15 seconds passed without a message passing check.
power_timeout(i) ==
    /\ process = "running"
    /\ power[i].pc = "wait"
    /\ power' = [power EXCEPT ![i].pc = "done", ![i].outcome = "Timed Out"]
    /\ UNCHANGED process

\* The code was accepted: the acknowledgement is sent, then os.execv replaces
\* the process (restart) or bot.close() ends it (shutdown).  A failed send
\* raises before either.
power_execute(i, send_ok) ==
    /\ process = "running"
    /\ power[i].pc = "confirmed"
    /\ IF send_ok
       THEN /\ power' = [power EXCEPT ![i].pc = "done", ![i].outcome = "executed"]
            /\ process' = IF power[i].cmd = "restart" THEN "replaced" ELSE "closed"
       ELSE /\ power' = [power EXCEPT ![i].pc = "done", ![i].outcome = "HTTPException"]
            /\ UNCHANGED process

PowerInit ==
    /\ power = [i \in PowerIds |-> PowerIdle]
    /\ process = "running"
    /\ PrefixUnused /\ ModUnused /\ MusicUnused /\ CmdUnused /\ UiUnused

PowerCommand ==
    \E i \in PowerIds, cmd \in {"restart", "shutdown"}, a \in PowerUsers,
       c \in PowerChannels, n \in Codes, ok \in BOOLEAN :
        power_command(i, cmd, a, c, n, ok)
PowerOnMessage ==
    \E a \in PowerUsers, c \in PowerChannels, m \in Contents : power_on_message(a, c, m)
PowerTimeout == \E i \in PowerIds : power_timeout(i)
PowerExecute == \E i \in PowerIds, ok \in BOOLEAN : power_execute(i, ok)

PowerNext ==
    \/ PowerCommand /\ UNCHANGED <<prefixVars, modVars, musicVars, cmdVars, uiVars>>
    \/ PowerOnMessage /\ UNCHANGED <<prefixVars, modVars, musicVars, cmdVars, uiVars>>
    \/ PowerTimeout /\ UNCHANGED <<prefixVars, modVars, musicVars, cmdVars, uiVars>>
    \/ PowerExecute /\ UNCHANGED <<prefixVars, modVars, musicVars, cmdVars, uiVars>>

SpecPower == PowerInit /\ [][PowerNext]_vars

(***************************************************************************)
(*                        cogs/moderation.py                               *)
(***************************************************************************)

\* Bounds of the moderation model.
NumOld == 1          \* case rows guild 1 already holds when the bot starts
MaxRole == 1         \* role positions are 0..MaxRole

ModIds == {1, 2}                 \* the invocations of one run
BotUser == "bot"                 \* self.bot.user
ModAuthors == {"ann"}            \* who invokes moderation commands
ModTargets == {"ann", "bob"}     \* whom they name
Reactors == {"ann", "bob"}       \* who adds reactions
None == "None"
Reasons == {None, "spam"}
Durations == {"90s", "soon", "29d"}
Emojis == {"check", "cross", "thumbsup"}   \* the two of the prompt and another one
ModlogChannels == {"#modlog"}

\* Optional values that are not strings: <<>> is None, <<x>> is x.
Some(x) == <<x>>
Nothing == <<>>

\* A role position as the handler sees it: None when there is no top role.
RolePositions == {Nothing} \cup {Some(p) : p \in 0..MaxRole}

\* What the platform cache tells a handler about the people involved.
KnownPositions == RolePositions \ {Nothing}
AllRoleEnvs ==
    [author_member : BOOLEAN,    \* isinstance(ctx.author, nextcord.Member)
     me_member : BOOLEAN,        \* isinstance(ctx.guild.me, nextcord.Member)
     t : RolePositions,          \* member.top_role
     a : RolePositions,          \* ctx.author.top_role
     m : RolePositions,          \* ctx.guild.me.top_role
     owner : BOOLEAN]            \* ctx.author.id == ctx.guild.owner_id

\* The ones the model draws from: every arrangement of known roles, and the
\* ones where one thing is missing (author or bot not a Member, a top role
\* that is None).
RoleEnvs ==
    {env \in AllRoleEnvs :
        \/ /\ env.author_member /\ env.me_member
           /\ {env.t, env.a, env.m} \subseteq KnownPositions
        \/ /\ ~(env.author_member /\ env.me_member) /\ ~env.owner
           /\ env.t = Some(0) /\ env.a = Some(MaxRole) /\ env.m = Some(MaxRole)
        \/ /\ env.author_member /\ env.me_member /\ ~env.owner
           /\ \E x \in {"t", "a", "m"} :
                  /\ env[x] = Nothing
                  /\ \A y \in {"t", "a", "m"} \ {x} :
                         env[y] = IF y = "t" THEN Some(0) ELSE Some(MaxRole)}

\* The message that invocation i posts to ask for confirmation.
ConfirmMessage(i) == "m" \o ToString(i)
Messages == {ConfirmMessage(i) : i \in ModIds} \cup {"m0"}

\* The case rows guild 1 holds at start.
OldCases ==
    {[case_id |-> k, user_id |-> "bob", moderator_id |-> "ann", action |-> "warn",
      reason |-> "old", duration |-> None] : k \in 1..NumOld}

\* An invocation that was not made yet.
ModIdle ==
    [cmd |-> "-", pc |-> "idle", guild |-> 0, author |-> "-", target |-> "-",
     given_reason |-> None,      \* the reason argument as typed
     reason |-> None,            \* the handler's variable reason
     duration |-> None,          \* the duration argument as typed (timeout)
     duration_str |-> None,      \* the handler's variable duration_str (timeout)
     hier |-> "-",               \* how the target's top role stood when checked
     confirm_msg |-> None,       \* confirm_msg_obj
     by |-> [user |-> "-", message |-> "-", emoji |-> "-"],
                                 \* what ended the wait for a reaction
     case_id |-> Nothing,        \* the handler's variable case_id
     dm |-> FALSE,               \* _send_dm_notification was called
     acted |-> FALSE,            \* the platform call was made and succeeded
     logged |-> FALSE,           \* send_mod_log sent the announcement
     outcome |-> "-"]            \* the last feedback embed, or the exception

\* ---- the database ----

\* _ensure_guild_tables_exist: CREATE TABLE IF NOT EXISTS for both tables of
\* the guild; an exception is logged and swallowed.
ensure_guild_tables_exist(db, guild_id, db_error) ==
    IF db_error \/ guild_id \in DOMAIN db.cases THEN db
    ELSE [cases |-> [g \in DOMAIN db.cases \cup {guild_id} |->
                        IF g = guild_id THEN {} ELSE db.cases[g]],
          seq |-> [g \in DOMAIN db.seq \cup {guild_id} |->
                        IF g = guild_id THEN 0 ELSE db.seq[g]],
          chans |-> [g \in DOMAIN db.chans \cup {guild_id} |->
                        IF g = guild_id THEN None ELSE db.chans[g]]]

\* The database as the handlers find it.
Db == [cases |-> cases, seq |-> sqlite_sequence, chans |-> mod_log_channels]

SetDb(db) ==
    /\ cases' = db.cases
    /\ sqlite_sequence' = db.seq
    /\ mod_log_channels' = db.chans

Max(S) == CHOOSE x \in S : \A y \in S : y <= x

\* (mutant) one rowid sequence for the tables of all guilds.
next_rowid_shared(db, guild_id) ==
    Max({db.seq[g] : g \in DOMAIN db.seq}) + 1

\* INTEGER PRIMARY KEY AUTOINCREMENT: one more than the largest rowid the
\* guild's table ever held.
next_rowid(db, guild_id) ==
    Max({db.seq[guild_id]} \cup {r.case_id : r \in db.cases[guild_id]}) + 1

\* (mutant) create_case that stores the moderator as the user and the user as
\* the moderator.
create_case_swapped(db0, guild_id, user_id, moderator_id, action, reason, duration, ensure_error, db_error) ==
    LET db == ensure_guild_tables_exist(db0, guild_id, ensure_error) IN
    IF db_error \/ guild_id \notin DOMAIN db.cases
    THEN [ret |-> Nothing, db |-> db]
    ELSE LET id == next_rowid(db, guild_id)
             row == [case_id |-> id, user_id |-> moderator_id,
                     moderator_id |-> user_id, action |-> action,
                     reason |-> reason, duration |-> duration]
         IN [ret |-> Some(id),
             db |-> [db EXCEPT !.cases[guild_id] = @ \cup {row},
                               !.seq[guild_id] = id]]

\* create_case: the case_id returned (None on any exception) and the database
\* it leaves.  The INSERT and its commit are one SQLite transaction and
\* cursor.lastrowid is the rowid of this INSERT.
create_case(db0, guild_id, user_id, moderator_id, action, reason, duration, ensure_error, db_error) ==
    LET db == ensure_guild_tables_exist(db0, guild_id, ensure_error) IN
    IF db_error \/ guild_id \notin DOMAIN db.cases
    THEN [ret |-> Nothing, db |-> db]
    ELSE LET id == next_rowid(db, guild_id)
             row == [case_id |-> id, user_id |-> user_id,
                     moderator_id |-> moderator_id, action |-> action,
                     reason |-> reason, duration |-> duration]
         IN [ret |-> Some(id),
             db |-> [db EXCEPT !.cases[guild_id] = @ \cup {row},
                               !.seq[guild_id] = id]]

\* get_case: the row as a dict, or None (no such row, or any exception).  The
\* tables are ensured first; a guild without table raises and yields None.
get_case(guild_id, case_id, db_error) ==
    IF db_error \/ guild_id \notin DOMAIN cases THEN Nothing
    ELSE LET found == {r \in cases[guild_id] : r.case_id = case_id}
         IN IF found = {} THEN Nothing ELSE Some(CHOOSE r \in found : TRUE)

\* ---- durations ----

\* pytimeparse.parse on the duration arguments of the model: seconds or None.
pytimeparse_parse(duration) ==
    CASE duration = "90s" -> Some(90)
      [] duration = "1h"  -> Some(3600)
      [] duration = "29d" -> Some(29 * 24 * 60 * 60)
      [] OTHER            -> Nothing

RECURSIVE JoinWithSpace(_)
JoinWithSpace(parts) ==
    IF parts = <<>> THEN ""
    ELSE IF Len(parts) = 1 THEN parts[1]
    ELSE parts[1] \o " " \o JoinWithSpace(Tail(parts))

\* format_duration(total_seconds)
format_duration(total_seconds) ==
    IF total_seconds <= 0 THEN "0s"
    ELSE LET days == total_seconds \div 86400
             rem1 == total_seconds % 86400
             hours == rem1 \div 3600
             rem2 == rem1 % 3600
             mins == rem2 \div 60
             secs_final == rem2 % 60
             p3 == (IF days # 0 THEN <<ToString(days) \o "d">> ELSE <<>>)
                   \o (IF hours # 0 THEN <<ToString(hours) \o "h">> ELSE <<>>)
                   \o (IF mins # 0 THEN <<ToString(mins) \o "m">> ELSE <<>>)
             parts == p3 \o (IF secs_final # 0 \/ p3 = <<>>
                             THEN <<ToString(secs_final) \o "s">> ELSE <<>>)
         IN IF parts # <<>> THEN JoinWithSpace(parts) ELSE "0s"

\* timeout: the reply that rejects the duration, or "pass".
timeout_duration_check(duration) ==
    LET seconds == pytimeparse_parse(duration)
        max_timeout_seconds == 28 * 24 * 60 * 60
    IN  IF seconds = Nothing THEN "Invalid duration format"
        ELSE IF ~(0 < seconds[1] /\ seconds[1] <= max_timeout_seconds)
        THEN "Duration must be between 1 second and 28 days."
        ELSE "pass"

\* ---- the checks each handler makes before it acts ----

\* The role comparisons shared by kick, ban and timeout.
role_hierarchy_check(env, verb) ==
    IF env.t = Nothing \/ env.a = Nothing \/ env.m = Nothing
    THEN "Could not determine role hierarchy."
    ELSE IF env.t[1] >= env.a[1] /\ ~env.owner
    THEN "You can't " \o verb \o " someone with a higher or equal role."
    ELSE IF env.t[1] >= env.m[1]
    THEN "I cannot " \o verb \o " someone with a higher or equal role than me."
    ELSE "pass"

\* kick: the reply that rejects the command, or "pass".
kick_checks(author, member, env) ==
    IF member = author THEN "You cannot kick yourself."
    ELSE IF member = BotUser THEN "I cannot kick myself."
    ELSE IF ~env.author_member \/ ~env.me_member
    THEN "An internal error occurred (could not verify roles)."
    ELSE role_hierarchy_check(env, "kick")

\* ban: the hierarchy is checked only for a user who is a member of the guild.
ban_checks(author, user, in_guild, env) ==
    IF user = author THEN "You cannot ban yourself."
    ELSE IF user = BotUser THEN "I cannot ban myself."
    ELSE IF ~env.author_member \/ ~env.me_member
    THEN "An internal error occurred (could not verify roles)."
    ELSE IF in_guild THEN role_hierarchy_check(env, "ban")
    ELSE "pass"

\* timeout: the checks on the people, then those on the duration.
timeout_checks(author, member, duration, env) ==
    IF member = author THEN "You cannot timeout yourself."
    ELSE IF member = BotUser THEN "I cannot timeout myself."
    ELSE IF env.author_member /\ env.me_member
    THEN (IF role_hierarchy_check(env, "timeout") # "pass"
          THEN role_hierarchy_check(env, "timeout")
          ELSE timeout_duration_check(duration))
    ELSE "An internal error occurred (could not verify roles)."

\* untimeout: the member must be timed out; the target is compared with the
\* author only, and only when author and bot are Member objects (otherwise a
\* warning is logged and the check is skipped).  A missing top role raises
\* AttributeError out of the handler.
untimeout_checks(author, member, timed_out, env) ==
    IF ~timed_out THEN "is not currently timed out."
    ELSE IF env.author_member /\ env.me_member
    THEN (IF env.t = Nothing \/ env.a = Nothing THEN "AttributeError"
          ELSE IF env.t[1] >= env.a[1] /\ ~env.owner
          THEN "You can't remove a timeout from someone with a higher or equal role."
          ELSE "pass")
    ELSE "pass"

\* warn
warn_checks(author, member, reason, env) ==
    IF reason = None THEN "You must provide a reason for the warning."
    ELSE IF member = author THEN "You cannot warn yourself."
    ELSE IF member = BotUser THEN "You cannot warn the bot."
    ELSE IF ~env.author_member
    THEN "An internal error occurred (could not verify moderator)."
    ELSE "pass"

\* unban: fetch_ban tells whether the user is banned.
unban_checks(fetch_ban) ==
    CASE fetch_ban = "banned"    -> "pass"
      [] fetch_ban = "NotFound"  -> "is not banned from this server."
      [] fetch_ban = "Forbidden" -> "I don't have permissions to check bans."
      [] OTHER                   -> "An API error occurred while checking ban status"

\* How the roles stood when the handler was invoked.  has_roles: the target
\* is a member of the guild (ban also takes users who are not, and no role
\* is compared for them).
HierarchyClass(env, has_roles) ==
    IF ~env.author_member \/ ~env.me_member THEN "undetermined"
    ELSE IF ~has_roles THEN "not a member"
    ELSE IF env.a = Nothing \/ env.m = Nothing THEN "undetermined"
    ELSE IF env.t = Nothing THEN "no top role"
    ELSE IF env.t[1] >= env.a[1] /\ ~env.owner THEN "at or above invoker"
    ELSE IF env.t[1] >= env.m[1] THEN "at or above bot"
    ELSE "below"

\* ---- the handlers ----

NoReaction == [user |-> "-", message |-> "-", emoji |-> "-"]
TimedOut == [user |-> "-", message |-> "-", emoji |-> "asyncio.TimeoutError"]

\* Invocations are numbered in the order in which they are made.
CanInvoke(i) ==
    /\ mod[i].pc = "idle"
    /\ \A j \in ModIds : j < i => mod[j].pc # "idle"

Begin(cmd, guild_id, author, target, reason) ==
    [ModIdle EXCEPT !.cmd = cmd, !.guild = guild_id, !.author = author,
                    !.target = target, !.given_reason = reason, !.reason = reason]

\* The handler returns after the feedback embed (or raises): its local
\* variables are gone, what stays is what it sent.
Finish(inv, outcome) ==
    [ModIdle EXCEPT !.pc = "done", !.outcome = outcome, !.logged = inv.logged]

\* _prompt_confirmation up to wait_for, and what kick / ban do when it returns
\* False at once.  prompt: "ok", "send failed" (ctx.send raised: no message)
\* or "react failed" (add_reaction raised: the message exists).
prompt_confirmation(i, prompt) ==
    /\ mod[i].pc = "prompt"
    /\ mod' = [mod EXCEPT ![i] =
                  CASE prompt = "ok" ->
                          [@ EXCEPT !.pc = "wait", !.confirm_msg = ConfirmMessage(i)]
                    [] prompt = "react failed" ->
                          Finish([@ EXCEPT !.confirm_msg = ConfirmMessage(i)],
                                 "Action Cancelled")
                    [] OTHER -> Finish(@, "Action Cancelled")]
    /\ UNCHANGED <<cases, sqlite_sequence, mod_log_channels>>

\* (mutant) the check of wait_for without the user.
confirmation_check_any_user(inv, user, message, emoji) ==
    /\ message = inv.confirm_msg
    /\ emoji \in {"check", "cross"}

\* def check(reaction, user) of _prompt_confirmation
confirmation_check(inv, user, message, emoji) ==
    /\ user = inv.author
    /\ message = inv.confirm_msg
    /\ emoji \in {"check", "cross"}

\* kick <member> [reason], up to the confirmation prompt.
kick(i, guild_id, author, member, reason, env, ensure_error) ==
    LET inv == [Begin("kick", guild_id, author, member, reason)
                   EXCEPT !.hier = HierarchyClass(env, TRUE)]
        chk == kick_checks(author, member, env)
    IN  /\ CanInvoke(i)
        /\ SetDb(ensure_guild_tables_exist(Db, guild_id, ensure_error))
        /\ mod' = [mod EXCEPT ![i] = IF chk # "pass" THEN Finish(inv, chk)
                                     ELSE [inv EXCEPT !.pc = "prompt"]]

\* ban <user> [reason], up to the confirmation prompt.
ban(i, guild_id, author, user, reason, in_guild, env, ensure_error) ==
    LET inv == [Begin("ban", guild_id, author, user, reason)
                   EXCEPT !.hier = HierarchyClass(env, in_guild)]
        chk == ban_checks(author, user, in_guild, env)
    IN  /\ CanInvoke(i)
        /\ SetDb(ensure_guild_tables_exist(Db, guild_id, ensure_error))
        /\ mod' = [mod EXCEPT ![i] = IF chk # "pass" THEN Finish(inv, chk)
                                     ELSE [inv EXCEPT !.pc = "prompt"]]

\* unban <user> [reason], up to create_case.
unban(i, guild_id, author, user, given, fetch_ban, ensure_error) ==
    LET reason == IF given = None THEN "No reason provided." ELSE given
        inv == [Begin("unban", guild_id, author, user, given) EXCEPT !.reason = reason]
        chk == unban_checks(fetch_ban)
    IN  /\ CanInvoke(i)
        /\ SetDb(ensure_guild_tables_exist(Db, guild_id, ensure_error))
        /\ mod' = [mod EXCEPT ![i] = IF chk # "pass" THEN Finish(inv, chk)
                                     ELSE [inv EXCEPT !.pc = "create"]]

\* untimeout <member> [reason], up to create_case.
untimeout(i, guild_id, author, member, given, timed_out, env, ensure_error) ==
    LET reason == IF given = None THEN "No reason provided." ELSE given
        inv == [Begin("untimeout", guild_id, author, member, given)
                   EXCEPT !.reason = reason, !.hier = HierarchyClass(env, TRUE)]
        chk == untimeout_checks(author, member, timed_out, env)
    IN  /\ CanInvoke(i)
        /\ SetDb(ensure_guild_tables_exist(Db, guild_id, ensure_error))
        /\ mod' = [mod EXCEPT ![i] = IF chk # "pass" THEN Finish(inv, chk)
                                     ELSE [inv EXCEPT !.pc = "create"]]

\* timeout <member> <duration> [reason], up to create_case.
timeout(i, guild_id, author, member, duration, reason, env, ensure_error) ==
    LET chk == timeout_checks(author, member, duration, env)
        inv == [Begin("timeout", guild_id, author, member, reason)
                   EXCEPT !.duration = duration, !.hier = HierarchyClass(env, TRUE)]
    IN  /\ CanInvoke(i)
        /\ SetDb(ensure_guild_tables_exist(Db, guild_id, ensure_error))
        /\ mod' = [mod EXCEPT ![i] =
                      IF chk # "pass" THEN Finish(inv, chk)
                      ELSE [inv EXCEPT !.pc = "create",
                                       !.duration_str =
                                           format_duration(pytimeparse_parse(duration)[1])]]

\* warn <member> <reason>, up to create_case.
warn(i, guild_id, author, member, reason, env, ensure_error) ==
    LET inv == Begin("warn", guild_id, author, member, reason)
        chk == warn_checks(author, member, reason, env)
    IN  /\ CanInvoke(i)
        /\ SetDb(ensure_guild_tables_exist(Db, guild_id, ensure_error))
        /\ mod' = [mod EXCEPT ![i] = IF chk # "pass" THEN Finish(inv, chk)
                                     ELSE [inv EXCEPT !.pc = "create"]]

\* What a reaction does to one invocation: wait_for returns it when check
\* passes.  On the check mark kick / ban go on to create_case, on the cross
\* they edit the prompt to "Action Cancelled" and return.
on_reaction_add_inv(inv, user, message, emoji) ==
    IF inv.pc = "wait" /\ confirmation_check(inv, user, message, emoji)
    THEN LET seen == [inv EXCEPT !.by = [user |-> user, message |-> message,
                                         emoji |-> emoji]]
         IN IF emoji = "check" THEN [seen EXCEPT !.pc = "create"]
            ELSE Finish(seen, "Action Cancelled")
    ELSE inv

\* A reaction_add event: every waiting invocation sees it.
on_reaction_add(user, message, emoji) ==
    /\ mod' = [i \in ModIds |-> on_reaction_add_inv(mod[i], user, message, emoji)]
    /\ mod' # mod
    /\ UNCHANGED <<cases, sqlite_sequence, mod_log_channels>>

\* asyncio.TimeoutError: 30 seconds passed without a reaction passing check.
confirmation_timeout(i) ==
    /\ mod[i].pc = "wait"
    /\ mod' = [mod EXCEPT ![i] = Finish([mod[i] EXCEPT !.by = TimedOut], "Action Cancelled")]
    /\ UNCHANGED <<cases, sqlite_sequence, mod_log_channels>>

\* case_id = await self.create_case(...), and the return when it is None.
handler_create_case(i, ensure_error, db_error) ==
    LET inv == mod[i]
        r == create_case(Db, inv.guild, inv.target, inv.author, inv.cmd, inv.reason,
                         inv.duration_str, ensure_error, db_error)
    IN  /\ inv.pc = "create"
        /\ SetDb(r.db)
        /\ mod' = [mod EXCEPT ![i] =
                      IF r.ret = Nothing
                      THEN Finish(inv, "Failed to create moderation case. Check logs.")
                      ELSE [inv EXCEPT !.case_id = r.ret, !.pc = "act"]]

\* (mutant) the handler that goes on to the announcement when the call failed.
handler_act_ignoring_failure(i, result) ==
    LET inv == [mod[i] EXCEPT !.dm = TRUE] IN
    /\ mod[i].pc = "act"
    /\ mod' = [mod EXCEPT ![i] =
                  IF inv.cmd = "warn" \/ result = "ok"
                  THEN [inv EXCEPT !.acted = (inv.cmd # "warn"), !.pc = "log"]
                  ELSE [inv EXCEPT !.pc = "log"]]
    /\ UNCHANGED <<cases, sqlite_sequence, mod_log_channels>>

\* The DM to the target (failures are logged only), then the platform call:
\* member.kick, guild.ban, guild.unban, member.timeout; warn makes none.
\* result: "ok", "Forbidden" or "HTTPException".
handler_act(i, result) ==
    LET inv == [mod[i] EXCEPT !.dm = TRUE] IN
    /\ mod[i].pc = "act"
    /\ mod' = [mod EXCEPT ![i] =
                  IF inv.cmd = "warn" THEN [inv EXCEPT !.pc = "log"]
                  ELSE IF result = "ok" THEN [inv EXCEPT !.acted = TRUE, !.pc = "log"]
                  ELSE Finish(inv, result)]
    /\ UNCHANGED <<cases, sqlite_sequence, mod_log_channels>>

\* send_mod_log: the announcement goes to the guild's modlog channel when one
\* is set, is a text channel of the guild and the bot may send embeds there.
send_mod_log(db, guild_id, channel_ok, db_error) ==
    /\ ~db_error
    /\ guild_id \in DOMAIN db.chans
    /\ db.chans[guild_id] # None
    /\ channel_ok

\* await self.send_mod_log(...), then the final feedback embed.
handler_send_mod_log(i, channel_ok, ensure_error, db_error) ==
    LET db == ensure_guild_tables_exist(Db, mod[i].guild, ensure_error) IN
    /\ mod[i].pc = "log"
    /\ SetDb(db)
    /\ mod' = [mod EXCEPT ![i] =
                  Finish([mod[i] EXCEPT !.logged =
                             send_mod_log(db, mod[i].guild, channel_ok, db_error)],
                         "Successful")]

\* (mutant) modlog <channel> that writes into the case table.
modlog_into_cases(i, guild_id, channel, perms_ok, ensure_error, db_error) ==
    LET db == ensure_guild_tables_exist(Db, guild_id, ensure_error)
        inv == Begin("modlog", guild_id, "ann", "-", None)
    IN  /\ CanInvoke(i)
        /\ IF guild_id \notin DOMAIN db.cases \/ db_error
           THEN SetDb(db) /\ mod' = [mod EXCEPT ![i] = Finish(inv, "Error")]
           ELSE IF ~perms_ok
           THEN SetDb(db) /\ mod' = [mod EXCEPT ![i] = Finish(inv, "Missing Permissions")]
           ELSE /\ SetDb([db EXCEPT !.chans[guild_id] = channel,
                                    !.cases[guild_id] = {r \in @ : r.case_id # 1}])
                /\ mod' = [mod EXCEPT ![i] = Finish(inv, "Modlog Updated")]

\* modlog <channel>: the upsert of the guild's modlog channel.
modlog(i, guild_id, channel, perms_ok, ensure_error, db_error) ==
    LET db == ensure_guild_tables_exist(Db, guild_id, ensure_error)
        inv == Begin("modlog", guild_id, "ann", "-", None)
    IN  /\ CanInvoke(i)
        /\ IF guild_id \notin DOMAIN db.cases \/ db_error
           THEN SetDb(db) /\ mod' = [mod EXCEPT ![i] = Finish(inv, "Error")]
           ELSE IF ~perms_ok
           THEN SetDb(db) /\ mod' = [mod EXCEPT ![i] = Finish(inv, "Missing Permissions")]
           ELSE /\ SetDb([db EXCEPT !.chans[guild_id] = channel])
                /\ mod' = [mod EXCEPT ![i] = Finish(inv, "Modlog Updated")]

ModInit ==
    /\ cases = [g \in {1} |-> OldCases]
    /\ sqlite_sequence = [g \in {1} |-> NumOld]
    /\ mod_log_channels = [g \in {1} |-> None]
    /\ mod = [i \in ModIds |-> ModIdle]
    /\ PrefixUnused /\ PowerUnused /\ MusicUnused /\ CmdUnused /\ UiUnused

Prompts == {"ok", "send failed", "react failed"}
PlatformResults == {"ok", "Forbidden", "HTTPException"}
\* A failing CREATE TABLE IF NOT EXISTS changes nothing where the table exists.
EnsureErrors(guild_id) == IF guild_id \in DOMAIN cases THEN {FALSE} ELSE BOOLEAN
FetchBanResults == {"banned", "NotFound", "Forbidden", "HTTPException"}

\* The author who names themself has the target's top role.
EnvsFor(author, target) == {env \in RoleEnvs : target = author => env.t = env.a}

Kick ==
    \E i \in ModIds : CanInvoke(i) /\
    \E g \in Guilds, a \in ModAuthors, t \in ModTargets, r \in Reasons :
       \E env \in EnvsFor(a, t) : \E e \in EnsureErrors(g) : kick(i, g, a, t, r, env, e)
Ban ==
    \E i \in ModIds : CanInvoke(i) /\
    \E g \in Guilds, a \in ModAuthors, t \in ModTargets, r \in Reasons,
       in_guild \in BOOLEAN : \E env \in EnvsFor(a, t) : \E e \in EnsureErrors(g) :
           ban(i, g, a, t, r, in_guild, env, e)
Unban ==
    \E i \in ModIds : CanInvoke(i) /\
    \E g \in Guilds, a \in ModAuthors, t \in ModTargets, r \in Reasons,
       f \in FetchBanResults : \E e \in EnsureErrors(g) : unban(i, g, a, t, r, f, e)
Untimeout ==
    \E i \in ModIds : CanInvoke(i) /\
    \E g \in Guilds, a \in ModAuthors, t \in ModTargets, r \in Reasons,
       to \in BOOLEAN : \E env \in EnvsFor(a, t) : \E e \in EnsureErrors(g) :
           untimeout(i, g, a, t, r, to, env, e)
Timeout ==
    \E i \in ModIds : CanInvoke(i) /\
    \E g \in Guilds, a \in ModAuthors, t \in ModTargets, d \in Durations,
       r \in Reasons : \E env \in EnvsFor(a, t) : \E e \in EnsureErrors(g) :
           timeout(i, g, a, t, d, r, env, e)
Warn ==
    \E i \in ModIds : CanInvoke(i) /\
    \E g \in Guilds, a \in ModAuthors, t \in ModTargets, r \in Reasons :
       \E env \in EnvsFor(a, t) : \E e \in EnsureErrors(g) : warn(i, g, a, t, r, env, e)
PromptConfirmation == \E i \in ModIds, p \in Prompts : prompt_confirmation(i, p)
OnReactionAdd ==
    \E u \in Reactors, m \in Messages, e \in Emojis : on_reaction_add(u, m, e)
ConfirmationTimeout == \E i \in ModIds : confirmation_timeout(i)
HandlerCreateCase ==
    \E i \in ModIds : mod[i].pc = "create" /\
    \E e2 \in BOOLEAN, e1 \in EnsureErrors(mod[i].guild) : handler_create_case(i, e1, e2)
HandlerAct == \E i \in ModIds, r \in PlatformResults : handler_act(i, r)
HandlerSendModLog ==
    \E i \in ModIds : mod[i].pc = "log" /\
    \E ok \in BOOLEAN, e2 \in BOOLEAN, e1 \in EnsureErrors(mod[i].guild) :
        handler_send_mod_log(i, ok, e1, e2)
Modlog ==
    \E i \in ModIds : CanInvoke(i) /\
    \E g \in Guilds, c \in ModlogChannels, ok \in BOOLEAN, e2 \in BOOLEAN :
        \E e1 \in EnsureErrors(g) : modlog(i, g, c, ok, e1, e2)

ModNext ==
    \/ Kick /\ UNCHANGED <<prefixVars, powerVars, musicVars, cmdVars, uiVars>>
    \/ Ban /\ UNCHANGED <<prefixVars, powerVars, musicVars, cmdVars, uiVars>>
    \/ Unban /\ UNCHANGED <<prefixVars, powerVars, musicVars, cmdVars, uiVars>>
    \/ Untimeout /\ UNCHANGED <<prefixVars, powerVars, musicVars, cmdVars, uiVars>>
    \/ Timeout /\ UNCHANGED <<prefixVars, powerVars, musicVars, cmdVars, uiVars>>
    \/ Warn /\ UNCHANGED <<prefixVars, powerVars, musicVars, cmdVars, uiVars>>
    \/ PromptConfirmation /\ UNCHANGED <<prefixVars, powerVars, musicVars, cmdVars, uiVars>>
    \/ OnReactionAdd /\ UNCHANGED <<prefixVars, powerVars, musicVars, cmdVars, uiVars>>
    \/ ConfirmationTimeout /\ UNCHANGED <<prefixVars, powerVars, musicVars, cmdVars, uiVars>>
    \/ HandlerCreateCase /\ UNCHANGED <<prefixVars, powerVars, musicVars, cmdVars, uiVars>>
    \/ HandlerAct /\ UNCHANGED <<prefixVars, powerVars, musicVars, cmdVars, uiVars>>
    \/ HandlerSendModLog /\ UNCHANGED <<prefixVars, powerVars, musicVars, cmdVars, uiVars>>
    \/ Modlog /\ UNCHANGED <<prefixVars, powerVars, musicVars, cmdVars, uiVars>>

SpecMod == ModInit /\ [][ModNext]_vars

(***************************************************************************)
(*                          cogs/music.py                                  *)
(***************************************************************************)

\* Tracks are numbered in the order in which the play command receives them
\* from the search, so the number of a track is its place in the order of
\* arrival.  A track the autoplay search finds was never queued: RelatedTrack.
MaxTracks == 3
MusicGuilds == {1}
PlayIds == {1}
AutoIds == {1}
TimerIds == {1, 2}
RelatedTrack == 0

\* GuildMusicState.__init__; disconnect_task is kept as "is not None".
GuildMusicState ==
    [queue |-> <<>>, volume |-> 50, autoplay |-> FALSE, disconnect_task |-> FALSE,
     bound_channel |-> None, current_track |-> Nothing]

\* guild.voice_client is None.
NoPlayer == [connected |-> FALSE, current |-> Nothing, start_pending |-> FALSE]

\* A handler that is not running.  orphan: the GuildMusicState the handler holds
\* in its local variable was deleted from guild_states meanwhile; stale: the
\* player it holds in its local variable was disconnected meanwhile.
NoCall == [pc |-> "idle", guild |-> 0, orphan |-> FALSE, stale |-> FALSE]
NoTask == [pc |-> "free", guild |-> 0, tracked |-> FALSE, active |-> FALSE]

\* A skip, stop or volume that is not running.  skipped: player.current when it
\* was invoked; (ghost) head: the head of the queue when it was invoked; (ghost)
\* ended: the tracks its player.stop() calls have ended; up_next: what its
\* reply names as Up Next; level: the argument of volume.
ControlIds == {1, 2}
NoControl ==
    [pc |-> "idle", cmd |-> "-", guild |-> 0, skipped |-> Nothing, head |-> Nothing,
     ended |-> <<>>, up_next |-> Nothing, level |-> 0, reply |-> "-"]

\* mafic.Player, whose source is not part of the repository.  stop_clears:
\* Player.stop() resets player.current itself (else the TrackEndEvent does);
\* play_sets_late: Player.play() sets player.current when the node has answered
\* (else before it asks the node).
Libraries == [stop_clears : BOOLEAN, play_sets_late : BOOLEAN]

\* No skip, stop or volume command has run, no event and no request is in flight.
NoControls ==
    /\ library = [stop_clears |-> FALSE, play_sets_late |-> FALSE]
    /\ controls = [i \in ControlIds |-> NoControl]
    /\ ending = {}
    /\ starting = [g \in MusicGuilds |-> <<>>]
    /\ player_volume = [g \in MusicGuilds |-> Nothing]

\* The state of the cog as one value, so that handlers can call each other.
Music ==
    [guild_states |-> guild_states, voice |-> voice, tasks |-> tasks, plays |-> plays,
     leaving |-> leaving, autoplaying |-> autoplaying, played |-> played,
     appended |-> appended, controls |-> controls, ending |-> ending,
     starting |-> starting, player_volume |-> player_volume, library |-> library]

SetMusic(w) ==
    /\ guild_states' = w.guild_states
    /\ voice' = w.voice
    /\ tasks' = w.tasks
    /\ plays' = w.plays
    /\ leaving' = w.leaving
    /\ autoplaying' = w.autoplaying
    /\ played' = w.played
    /\ appended' = w.appended
    /\ controls' = w.controls
    /\ ending' = w.ending
    /\ starting' = w.starting
    /\ player_volume' = w.player_volume
    /\ library' = w.library

\* self.guild_states[guild_id] on a defaultdict: a missing state is created.
Touch(w, guild_id) ==
    IF guild_id \in DOMAIN w.guild_states THEN w
    ELSE [w EXCEPT !.guild_states = (guild_id :> GuildMusicState) @@ @]

\* task.cancel() on the task state.disconnect_task refers to.
Cancel(w, guild_id) ==
    [w EXCEPT !.tasks =
        [k \in TimerIds |-> IF @[k].guild = guild_id /\ @[k].tracked THEN NoTask ELSE @[k]]]

\* The reference to a task is lost: overwritten, or its state was deleted.
Forget(w, guild_id) ==
    [w EXCEPT !.tasks =
        [k \in TimerIds |-> IF @[k].guild = guild_id THEN [@[k] EXCEPT !.tracked = FALSE]
                            ELSE @[k]]]

\* (ghost) the sleeping timers of the guild have seen a track queued or started.
Disturb(w, guild_id) ==
    [w EXCEPT !.tasks =
        [k \in TimerIds |->
            IF @[k].guild = guild_id /\ @[k].pc = "sleep" THEN [@[k] EXCEPT !.active = TRUE]
            ELSE @[k]]]

\* play_next and the handlers that call it need a free slot for what they start.
Bounded(w) ==
    /\ \E k \in TimerIds : w.tasks[k].pc = "free"
    /\ \E k \in AutoIds : w.autoplaying[k].pc = "idle"

\* del self.guild_states[guild_id]: handlers in flight keep the deleted object.
DeleteState(w, guild_id) ==
    LET Lost(c) == IF c.pc # "idle" /\ c.guild = guild_id THEN [c EXCEPT !.orphan = TRUE] ELSE c
        w1 == Forget(w, guild_id)
    IN [w1 EXCEPT !.guild_states = [h \in DOMAIN @ \ {guild_id} |-> @[h]],
                  !.plays = [i \in PlayIds |-> Lost(@[i])],
                  !.autoplaying = [k \in AutoIds |-> Lost(@[k])]]

\* voice_client.disconnect(): the player is gone, handlers in flight keep it.
Disconnect(w, guild_id) ==
    LET Gone(c) == IF c.pc # "idle" /\ c.guild = guild_id THEN [c EXCEPT !.stale = TRUE] ELSE c
    IN [w EXCEPT !.voice[guild_id] = NoPlayer,
                 !.player_volume[guild_id] = Nothing,
                 !.plays = [i \in PlayIds |-> Gone(@[i])],
                 !.autoplaying = [k \in AutoIds |-> Gone(@[k])]]

\* state.disconnect_task = asyncio.create_task(self.disconnect_after_timeout(..)):
\* the task the attribute referred to before is not cancelled.
schedule_disconnect(w, guild_id, orphan) ==
    LET w1 == IF orphan THEN w ELSE Forget(w, guild_id)
        k == CHOOSE j \in TimerIds : w1.tasks[j].pc = "free" /\ \A l \in 1 .. j - 1 : w1.tasks[l].pc # "free"
        busy == guild_id \in DOMAIN w.guild_states /\ w.guild_states[guild_id].queue # <<>>
        w2 == [w1 EXCEPT !.tasks[k] =
                  [pc |-> "sleep", guild |-> guild_id, tracked |-> ~orphan, active |-> busy]]
    IN IF orphan THEN w2 ELSE [w2 EXCEPT !.guild_states[guild_id].disconnect_task = TRUE]

\* (mutant) play_next that schedules the disconnect as soon as the queue is drained.
play_next_eager(w, guild_id) ==
    LET w1 == Touch(w, guild_id)
        state == w1.guild_states[guild_id]
        next_track == Head(state.queue)
        w2 == [w1 EXCEPT !.guild_states[guild_id].queue = Tail(@),
                         !.guild_states[guild_id].current_track = Some(next_track),
                         !.voice[guild_id].current = Some(next_track),
                         !.voice[guild_id].start_pending = TRUE,
                         !.played[guild_id] = Append(@, next_track)]
    IN IF ~w1.voice[guild_id].connected THEN w1
       ELSE IF state.queue # <<>>
            THEN IF Tail(state.queue) = <<>> THEN schedule_disconnect(w2, guild_id, FALSE) ELSE w2
       ELSE schedule_disconnect([w1 EXCEPT !.guild_states[guild_id].current_track = Nothing],
                                guild_id, FALSE)

\* play_next up to its first await or its return.  With autoplay on and the
\* queue empty it suspends in player.fetch_tracks (play_next_autoplay goes on);
\* with a track to play it suspends in player.play (player_played goes on).
play_next(w, guild_id) ==
    LET w1 == Touch(w, guild_id)
        state == w1.guild_states[guild_id]
        next_track == Head(state.queue)
        w2 == [w1 EXCEPT !.guild_states[guild_id].current_track = Nothing]
        late == w.library.play_sets_late
    IN IF ~w1.voice[guild_id].connected THEN w1
       ELSE IF state.queue # <<>>
            THEN [w1 EXCEPT !.guild_states[guild_id].queue = Tail(@),
                            !.guild_states[guild_id].current_track = Some(next_track),
                            !.voice[guild_id].current = IF late THEN @ ELSE Some(next_track),
                            !.starting[guild_id] = IF late THEN Append(@, next_track) ELSE @,
                            !.voice[guild_id].start_pending = TRUE,
                            !.played[guild_id] = Append(@, next_track)]
       ELSE IF state.autoplay
            THEN [w2 EXCEPT !.autoplaying[CHOOSE k \in AutoIds : w2.autoplaying[k].pc = "idle"] =
                            [NoCall EXCEPT !.pc = "fetch", !.guild = guild_id]]
       ELSE schedule_disconnect(w2, guild_id, FALSE)

\* play_next after the autoplay searches: a related or fallback track is played,
\* or nothing was found and the disconnect is scheduled, or the fallback search
\* raised.  The two searches follow each other without touching the state.
play_next_autoplay(w, k, found) ==
    LET call == w.autoplaying[k]
        g == call.guild
        w1 == [w EXCEPT !.autoplaying[k] = NoCall]
        w2 == IF call.orphan THEN w1
              ELSE [w1 EXCEPT !.guild_states[g].current_track = Some(RelatedTrack)]
    IN CASE found = "exception" -> w1
         [] found = "nothing" -> schedule_disconnect(w1, g, call.orphan)
         [] OTHER ->
              IF call.stale THEN w2
              ELSE [w2 EXCEPT !.voice[g].current = Some(RelatedTrack),
                              !.voice[g].start_pending = TRUE]

\* on_track_end; the player has dropped its current track unless it was replaced.
on_track_end(w, guild_id, reason) ==
    IF reason = "REPLACED" THEN w
    ELSE play_next([w EXCEPT !.voice[guild_id].current = Nothing], guild_id)

\* player.play() of play_next returns: the library has set player.current.
player_played(w, guild_id) ==
    [w EXCEPT !.voice[guild_id].current = Some(Head(w.starting[guild_id])),
              !.starting[guild_id] = Tail(@)]

on_track_start(w, guild_id) ==
    LET w1 == Touch(w, guild_id)
        started == w.starting[guild_id]
        track == IF started = <<>> THEN w.voice[guild_id].current
                 ELSE Some(started[Len(started)])
        w2 == IF w1.guild_states[guild_id].disconnect_task
              THEN [Cancel(w1, guild_id) EXCEPT !.guild_states[guild_id].disconnect_task = FALSE]
              ELSE w1
    IN Disturb([w2 EXCEPT !.guild_states[guild_id].current_track = track,
                          !.voice[guild_id].start_pending = FALSE], guild_id)

\* disconnect_after_timeout when asyncio.sleep(30) returns: with a voice client
\* it runs into voice_client.disconnect(), without one it deletes the state.
disconnect_after_timeout(w, k) ==
    LET g == w.tasks[k].guild
    IN IF w.voice[g].connected
       THEN [Disconnect(w, g) EXCEPT !.tasks[k].pc = "leave"]
       ELSE [DeleteState(w, g) EXCEPT !.tasks[k] = NoTask]

\* disconnect_after_timeout after disconnect() and bound_channel.send(): del.
disconnect_after_timeout_cleanup(w, k) ==
    [DeleteState(w, w.tasks[k].guild) EXCEPT !.tasks[k] = NoTask]

\* play up to its first await: connect() without a voice client, else ctx.send.
play(w, i, guild_id) ==
    LET w1 == Touch(w, guild_id)
        call == [NoCall EXCEPT !.guild = guild_id]
    IN IF ~w1.voice[guild_id].connected
       THEN [w1 EXCEPT !.plays[i] = [call EXCEPT !.pc = "connect"]]
       ELSE [w1 EXCEPT !.guild_states[guild_id].bound_channel = "music",
                       !.plays[i] = [call EXCEPT !.pc = "search"]]

\* play after connect() and set_volume(): a second connect of the guild raises.
play_connected(w, i, ok) ==
    LET call == w.plays[i]
        g == call.guild
        volume == IF call.orphan THEN GuildMusicState.volume ELSE w.guild_states[g].volume
        w1 == [w EXCEPT !.voice[g] = [NoPlayer EXCEPT !.connected = TRUE],
                        !.player_volume[g] = Some(volume),
                        !.plays[i] = [call EXCEPT !.pc = "search", !.stale = FALSE]]
    IN IF ~ok \/ w.voice[g].connected THEN [w EXCEPT !.plays[i] = NoCall]
       ELSE IF call.orphan THEN w1
       ELSE [w1 EXCEPT !.guild_states[g].bound_channel = "music"]

\* (mutant) play that puts what it found at the head of the queue.
play_fetched_head(w, i, found, n) ==
    LET call == w.plays[i]
        g == call.guild
        new == [j \in 1 .. n |-> w.appended + j]
        w1 == [w EXCEPT !.plays[i] = [call EXCEPT !.pc = "edit"], !.appended = @ + n]
    IN IF found \in {"exception", "nothing"} THEN [w EXCEPT !.plays[i] = NoCall]
       ELSE IF call.orphan \/ n = 0 THEN w1
       ELSE Disturb([w1 EXCEPT !.guild_states[g].queue = new \o @], g)

\* play after fetch_tracks(): the search raised, found nothing, found tracks
\* (the first is appended) or a playlist of n tracks (all are appended).
play_fetched(w, i, found, n) ==
    LET call == w.plays[i]
        g == call.guild
        new == [j \in 1 .. n |-> w.appended + j]
        w1 == [w EXCEPT !.plays[i] = [call EXCEPT !.pc = "edit"], !.appended = @ + n]
    IN IF found \in {"exception", "nothing"} THEN [w EXCEPT !.plays[i] = NoCall]
       ELSE IF call.orphan \/ n = 0 THEN w1
       ELSE Disturb([w1 EXCEPT !.guild_states[g].queue = @ \o new], g)

\* play after search_msg.edit(): play_next unless the player has a current track.
play_edited(w, i, current) ==
    LET w1 == [w EXCEPT !.plays[i] = NoCall]
    IN IF current # Nothing THEN w1 ELSE play_next(w1, w.plays[i].guild)

\* disconnect up to player.disconnect(); without a voice client it only replies.
disconnect(w, guild_id) ==
    IF ~w.voice[guild_id].connected THEN w
    ELSE [Disconnect(w, guild_id) EXCEPT !.leaving = @ \cup {guild_id}]

\* disconnect after player.disconnect(): cancel the pending task, delete the state.
disconnect_cleanup(w, guild_id) ==
    LET w1 == [w EXCEPT !.leaving = @ \ {guild_id}]
    IN IF guild_id \notin DOMAIN w.guild_states THEN w1
       ELSE IF w.guild_states[guild_id].disconnect_task
            THEN DeleteState(Cancel(w1, guild_id), guild_id)
       ELSE DeleteState(w1, guild_id)

\* autoplay: the toggle.
autoplay(w, guild_id) ==
    [Touch(w, guild_id) EXCEPT !.guild_states[guild_id].autoplay = ~@]

\* (mutant) volume that takes any level.
volume_unchecked(w, i, guild_id, level, ok) ==
    LET call == [NoControl EXCEPT !.pc = "done", !.cmd = "volume", !.guild = guild_id,
                                  !.level = level]
        w1 == Touch(w, guild_id)
        w2 == [w1 EXCEPT !.guild_states[guild_id].volume = level]
    IN IF ~w.voice[guild_id].connected
       THEN [w EXCEPT !.controls[i] = [call EXCEPT !.reply = "I am not in a voice channel."]]
       ELSE IF ~ok
       THEN [w2 EXCEPT !.controls[i] = [call EXCEPT !.reply = "An Error Occurred"]]
       ELSE [w2 EXCEPT !.player_volume[guild_id] = Some(level),
                       !.controls[i] = [call EXCEPT !.reply = "Volume set"]]

\* volume: the range test, the voice client test, then the state and the player;
\* ok: player.set_volume() did not raise.
volume(w, i, guild_id, level, ok) ==
    LET call == [NoControl EXCEPT !.pc = "done", !.cmd = "volume", !.guild = guild_id,
                                  !.level = level]
        w1 == Touch(w, guild_id)
        w2 == [w1 EXCEPT !.guild_states[guild_id].volume = level]
    IN IF ~(0 <= level /\ level <= 150)
       THEN [w EXCEPT !.controls[i] =
                [call EXCEPT !.reply = "Volume must be between 0 and 150."]]
       ELSE IF ~w.voice[guild_id].connected
       THEN [w EXCEPT !.controls[i] = [call EXCEPT !.reply = "I am not in a voice channel."]]
       ELSE IF ~ok
       THEN [w2 EXCEPT !.controls[i] = [call EXCEPT !.reply = "An Error Occurred"]]
       ELSE [w2 EXCEPT !.player_volume[guild_id] = Some(level),
                       !.controls[i] = [call EXCEPT !.reply = "Volume set"]]

\* player.stop() of invocation i: the node ends the track it plays, if it plays
\* one, and sends a TrackEndEvent.
player_stop(w, i, guild_id) ==
    LET current == w.voice[guild_id].current
        playing == current # Nothing /\ guild_id \notin w.ending
        w1 == IF playing
              THEN [w EXCEPT !.ending = @ \cup {guild_id},
                             !.controls[i].ended = Append(@, current[1])]
              ELSE w
    IN IF w.library.stop_clears THEN [w1 EXCEPT !.voice[guild_id].current = Nothing] ELSE w1

\* stop up to player.stop(): the queue is cleared, the pending disconnect is
\* cancelled; without a current track it only replies.
stop(w, i, guild_id) ==
    LET call == [NoControl EXCEPT !.cmd = "stop", !.guild = guild_id,
                                  !.skipped = w.voice[guild_id].current]
        w1 == IF guild_id \notin DOMAIN w.guild_states THEN w
              ELSE [w EXCEPT !.guild_states[guild_id].queue = <<>>,
                             !.guild_states[guild_id].current_track = Nothing]
        w2 == IF guild_id \in DOMAIN w.guild_states /\ w.guild_states[guild_id].disconnect_task
              THEN [Cancel(w1, guild_id) EXCEPT !.guild_states[guild_id].disconnect_task = FALSE]
              ELSE w1
    IN IF ~w.voice[guild_id].connected \/ w.voice[guild_id].current = Nothing
       THEN [w EXCEPT !.controls[i] =
                [call EXCEPT !.pc = "done", !.reply = "There is nothing to stop."]]
       ELSE player_stop([w2 EXCEPT !.controls[i] = [call EXCEPT !.pc = "stop"]],
                        i, guild_id)

\* stop after player.stop(): the reply.
stop_stopped(w, i) ==
    [w EXCEPT !.controls[i].pc = "done",
              !.controls[i].reply = "Stopped playback and cleared the queue."]

\* skip up to its first player.stop(); without a current track it only replies.
skip(w, i, guild_id) ==
    LET w1 == Touch(w, guild_id)
        queue == w1.guild_states[guild_id].queue
        call == [NoControl EXCEPT !.cmd = "skip", !.guild = guild_id,
                                  !.skipped = w.voice[guild_id].current,
                                  !.head = IF queue = <<>> THEN Nothing ELSE Some(Head(queue))]
    IN IF ~w.voice[guild_id].connected \/ w.voice[guild_id].current = Nothing
       THEN [w EXCEPT !.controls[i] =
                [call EXCEPT !.pc = "done", !.reply = "There is nothing to skip."]]
       ELSE player_stop([w1 EXCEPT !.controls[i] = [call EXCEPT !.pc = "stop"]],
                        i, guild_id)

\* skip after its first player.stop(): player.current.title is read (an
\* AttributeError without a current track goes to cog_command_error), the head
\* of the queue is taken as Up Next, player.stop() is called again.
skip_stopped(w, i) ==
    LET g == w.controls[i].guild
        queue == IF g \in DOMAIN w.guild_states THEN w.guild_states[g].queue ELSE <<>>
        next_track_in_queue == IF queue = <<>> THEN Nothing ELSE Some(Head(queue))
    IN IF w.voice[g].current = Nothing
       THEN [w EXCEPT !.controls[i].pc = "done", !.controls[i].reply = "An Error Occurred"]
       ELSE player_stop([w EXCEPT !.controls[i].pc = "stop again",
                                  !.controls[i].up_next = next_track_in_queue],
                        i, g)

\* skip after its second player.stop(): the reply.
skip_stopped_again(w, i) ==
    [w EXCEPT !.controls[i].pc = "done", !.controls[i].reply = "Skipped"]

\* ---- the music cog as a state machine ----

MusicInit ==
    /\ guild_states = Empty
    /\ voice = [g \in MusicGuilds |-> NoPlayer]
    /\ tasks = [k \in TimerIds |-> NoTask]
    /\ plays = [i \in PlayIds |-> NoCall]
    /\ leaving = {}
    /\ autoplaying = [k \in AutoIds |-> NoCall]
    /\ played = [g \in MusicGuilds |-> <<>>]
    /\ appended = 0
    /\ NoControls
    /\ PrefixUnused /\ PowerUnused /\ ModUnused /\ CmdUnused /\ UiUnused

\* What player.current of the player a play command holds reads as: the guild's
\* player, or a disconnected player, whose attribute the library defines.
CurrentOf(i) ==
    IF plays[i].stale THEN {Nothing, Some(RelatedTrack)} ELSE {voice[plays[i].guild].current}

\* The sizes of what a search can hand to the play command.
Found(found) ==
    CASE found = "tracks" -> {n \in {1} : appended + n <= MaxTracks}
      [] found = "playlist" -> {n \in 0 .. 2 : appended + n <= MaxTracks}
      [] OTHER -> {0}

OnTrackStart ==
    \E g \in MusicGuilds :
        /\ voice[g].start_pending
        /\ SetMusic(on_track_start(Music, g))

OnTrackEnd ==
    \E g \in MusicGuilds :
        /\ voice[g].current # Nothing
        /\ Bounded(Music)
        /\ \E reason \in {"FINISHED", "REPLACED"} :
              /\ reason = "FINISHED" => ~voice[g].start_pending
              /\ SetMusic(on_track_end(Music, g, reason))

MusicNext ==
    \/ OnTrackStart /\ UNCHANGED <<prefixVars, powerVars, modVars, cmdVars, uiVars>>
    \/ OnTrackEnd /\ UNCHANGED <<prefixVars, powerVars, modVars, cmdVars, uiVars>>
    \/ /\ \E k \in AutoIds :      \* the autoplay searches of play_next return
            /\ autoplaying[k].pc = "fetch"
            /\ Bounded([Music EXCEPT !.autoplaying[k] = NoCall])
            /\ \E found \in {"exception", "nothing", "tracks"} :
                  SetMusic(play_next_autoplay(Music, k, found))
       /\ UNCHANGED <<prefixVars, powerVars, modVars, cmdVars, uiVars>>
    \/ /\ \E k \in TimerIds :     \* asyncio.sleep(30) of a timer returns
            /\ tasks[k].pc = "sleep"
            /\ SetMusic(disconnect_after_timeout(Music, k))
       /\ UNCHANGED <<prefixVars, powerVars, modVars, cmdVars, uiVars>>
    \/ /\ \E k \in TimerIds :     \* disconnect() and send() of a timer return
            /\ tasks[k].pc = "leave"
            /\ SetMusic(disconnect_after_timeout_cleanup(Music, k))
       /\ UNCHANGED <<prefixVars, powerVars, modVars, cmdVars, uiVars>>
    \/ /\ \E i \in PlayIds :      \* a member in the bot's voice channel sends play
            /\ plays[i].pc = "idle"
            /\ appended < MaxTracks
            /\ \E g \in MusicGuilds : SetMusic(play(Music, i, g))
       /\ UNCHANGED <<prefixVars, powerVars, modVars, cmdVars, uiVars>>
    \/ /\ \E i \in PlayIds :      \* connect() and set_volume() of play return
            /\ plays[i].pc = "connect"
            /\ \E ok \in BOOLEAN : SetMusic(play_connected(Music, i, ok))
       /\ UNCHANGED <<prefixVars, powerVars, modVars, cmdVars, uiVars>>
    \/ /\ \E i \in PlayIds :      \* fetch_tracks() of play returns
            /\ plays[i].pc = "search"
            /\ \E found \in {"exception", "nothing", "tracks", "playlist"} :
                  \E n \in Found(found) : SetMusic(play_fetched(Music, i, found, n))
       /\ UNCHANGED <<prefixVars, powerVars, modVars, cmdVars, uiVars>>
    \/ /\ \E i \in PlayIds :      \* search_msg.edit() of play returns
            /\ plays[i].pc = "edit"
            /\ Bounded(Music)
            /\ \E current \in CurrentOf(i) : SetMusic(play_edited(Music, i, current))
       /\ UNCHANGED <<prefixVars, powerVars, modVars, cmdVars, uiVars>>
    \/ /\ \E g \in MusicGuilds :  \* a member in the bot's voice channel sends disconnect
            /\ voice[g].connected
            /\ g \notin leaving
            /\ SetMusic(disconnect(Music, g))
       /\ UNCHANGED <<prefixVars, powerVars, modVars, cmdVars, uiVars>>
    \/ /\ \E g \in leaving :      \* player.disconnect() of disconnect returns
            SetMusic(disconnect_cleanup(Music, g))
       /\ UNCHANGED <<prefixVars, powerVars, modVars, cmdVars, uiVars>>
    \/ /\ \E g \in MusicGuilds :  \* a member in a voice channel sends autoplay
            SetMusic(autoplay(Music, g))
       /\ UNCHANGED <<prefixVars, powerVars, modVars, cmdVars, uiVars>>

SpecMusic == MusicInit /\ [][MusicNext]_vars

\* ---- play_next alone: a connected player works off a queue ----

\* Sequences of at most n tracks.
QueuesUpTo(n) == UNION {[1 .. m -> 0 .. MaxTracks] : m \in 0 .. n}

\* Some tracks were appended and one track is playing (handed to the player, its
\* start event delivered or not); autoplay is off, no play command, no
\* disconnect command and no timer runs.
PlayNextInit ==
    /\ \E q \in QueuesUpTo(MaxTracks), t \in 0 .. MaxTracks, pending \in BOOLEAN :
          /\ guild_states = [g \in MusicGuilds |->
                [GuildMusicState EXCEPT !.queue = q, !.current_track = Some(t),
                                        !.bound_channel = "music"]]
          /\ voice = [g \in MusicGuilds |->
                [connected |-> TRUE, current |-> Some(t), start_pending |-> pending]]
          /\ appended = Len(q)
    /\ tasks = [k \in TimerIds |-> NoTask]
    /\ plays = [i \in PlayIds |-> NoCall]
    /\ leaving = {}
    /\ autoplaying = [k \in AutoIds |-> NoCall]
    /\ played = [g \in MusicGuilds |-> <<>>]
    /\ NoControls
    /\ PrefixUnused /\ PowerUnused /\ ModUnused /\ CmdUnused /\ UiUnused

PlayNextNext ==
    \/ OnTrackStart /\ UNCHANGED <<prefixVars, powerVars, modVars, cmdVars, uiVars>>
    \/ OnTrackEnd /\ UNCHANGED <<prefixVars, powerVars, modVars, cmdVars, uiVars>>

SpecPlayNext == PlayNextInit /\ [][PlayNextNext]_vars

\* ---- skip, stop and volume on a guild ----

\* Levels a user gives to volume.
Levels == {-1, 0, 75, 150, 151}

\* The bot is in no voice channel and holds no state, or it plays track 1 with
\* the tracks after it queued; no play command, no disconnect and no timer runs,
\* and no track ends by itself.
ControlsInit ==
    /\ \E connected \in BOOLEAN, m \in 0 .. MaxTracks - 1, auto \in BOOLEAN, stop_clears \in BOOLEAN :
          /\ guild_states =
                IF connected
                THEN [g \in MusicGuilds |->
                        [GuildMusicState EXCEPT !.queue = [j \in 1 .. m |-> j + 1],
                                                !.current_track = Some(1),
                                                !.autoplay = auto,
                                                !.bound_channel = "music"]]
                ELSE Empty
          /\ voice = [g \in MusicGuilds |->
                IF connected
                THEN [connected |-> TRUE, current |-> Some(1), start_pending |-> FALSE]
                ELSE NoPlayer]
          /\ player_volume = [g \in MusicGuilds |->
                IF connected THEN Some(GuildMusicState.volume) ELSE Nothing]
          /\ appended = IF connected THEN m + 1 ELSE 0
          /\ played = [g \in MusicGuilds |-> IF connected THEN <<1>> ELSE <<>>]
          /\ library = [stop_clears |-> stop_clears, play_sets_late |-> FALSE]
    /\ tasks = [k \in TimerIds |-> NoTask]
    /\ plays = [i \in PlayIds |-> NoCall]
    /\ leaving = {}
    /\ autoplaying = [k \in AutoIds |-> NoCall]
    /\ controls = [i \in ControlIds |-> NoControl]
    /\ ending = {}
    /\ starting = [g \in MusicGuilds |-> <<>>]
    /\ PrefixUnused /\ PowerUnused /\ ModUnused /\ CmdUnused /\ UiUnused

\* The TrackEndEvent of a stopped track is dispatched, after the TrackStartEvent
\* of that track.
OnTrackStopped ==
    \E g \in ending :
        /\ ~voice[g].start_pending
        /\ Bounded(Music)
        /\ SetMusic(on_track_end([Music EXCEPT !.ending = @ \ {g}], g, "STOPPED"))

ControlsNext ==
    \/ OnTrackStart /\ UNCHANGED <<prefixVars, powerVars, modVars, cmdVars, uiVars>>
    \/ OnTrackStopped /\ UNCHANGED <<prefixVars, powerVars, modVars, cmdVars, uiVars>>
    \/ /\ \E k \in AutoIds :        \* the autoplay searches of play_next return
            /\ autoplaying[k].pc = "fetch"
            /\ Bounded([Music EXCEPT !.autoplaying[k] = NoCall])
            /\ \E found \in {"exception", "nothing", "tracks"} :
                  SetMusic(play_next_autoplay(Music, k, found))
       /\ UNCHANGED <<prefixVars, powerVars, modVars, cmdVars, uiVars>>
    \/ /\ \E i \in ControlIds :     \* a member in a voice channel sends stop
            /\ controls[i].pc = "idle"
            /\ \E g \in MusicGuilds : SetMusic(stop(Music, i, g))
       /\ UNCHANGED <<prefixVars, powerVars, modVars, cmdVars, uiVars>>
    \/ /\ \E i \in ControlIds :     \* player.stop() of stop returns
            /\ controls[i].cmd = "stop" /\ controls[i].pc = "stop"
            /\ SetMusic(stop_stopped(Music, i))
       /\ UNCHANGED <<prefixVars, powerVars, modVars, cmdVars, uiVars>>
    \/ /\ \E i \in ControlIds :     \* a member in a voice channel sends skip
            /\ controls[i].pc = "idle"
            /\ \E g \in MusicGuilds : SetMusic(skip(Music, i, g))
       /\ UNCHANGED <<prefixVars, powerVars, modVars, cmdVars, uiVars>>
    \/ /\ \E i \in ControlIds :     \* the first player.stop() of skip returns
            /\ controls[i].cmd = "skip" /\ controls[i].pc = "stop"
            /\ SetMusic(skip_stopped(Music, i))
       /\ UNCHANGED <<prefixVars, powerVars, modVars, cmdVars, uiVars>>
    \/ /\ \E i \in ControlIds :     \* the second player.stop() of skip returns
            /\ controls[i].pc = "stop again"
            /\ SetMusic(skip_stopped_again(Music, i))
       /\ UNCHANGED <<prefixVars, powerVars, modVars, cmdVars, uiVars>>
    \/ /\ \E i \in ControlIds :     \* a member in a voice channel sends volume
            /\ controls[i].pc = "idle"
            /\ \E g \in MusicGuilds, level \in Levels, ok \in BOOLEAN :
                  SetMusic(volume(Music, i, g, level, ok))
       /\ UNCHANGED <<prefixVars, powerVars, modVars, cmdVars, uiVars>>

SpecControls == ControlsInit /\ [][ControlsNext]_vars

\* ---- play commands that overlap on an idle player ----

OverlapIds == {1, 2}

\* The bot is in a voice channel and plays nothing: the queue is empty, and the
\* inactivity timer that play_next started when the queue ran empty sleeps or
\* the bot has just been connected.  No track ends by itself, no disconnect
\* command and no timer runs.
OverlapInit ==
    /\ \E timer \in BOOLEAN, play_sets_late \in BOOLEAN :
          /\ guild_states = [g \in MusicGuilds |->
                [GuildMusicState EXCEPT !.bound_channel = "music", !.disconnect_task = timer]]
          /\ tasks = [k \in TimerIds |->
                IF timer /\ k = 1
                THEN [pc |-> "sleep", guild |-> 1, tracked |-> TRUE, active |-> FALSE]
                ELSE NoTask]
          /\ library = [stop_clears |-> FALSE, play_sets_late |-> play_sets_late]
    /\ voice = [g \in MusicGuilds |-> [NoPlayer EXCEPT !.connected = TRUE]]
    /\ player_volume = [g \in MusicGuilds |-> Some(GuildMusicState.volume)]
    /\ plays = [i \in OverlapIds |-> NoCall]
    /\ leaving = {}
    /\ autoplaying = [k \in AutoIds |-> NoCall]
    /\ played = [g \in MusicGuilds |-> <<>>]
    /\ appended = 0
    /\ controls = [i \in ControlIds |-> NoControl]
    /\ ending = {}
    /\ starting = [g \in MusicGuilds |-> <<>>]
    /\ PrefixUnused /\ PowerUnused /\ ModUnused /\ CmdUnused /\ UiUnused

OverlapNext ==
    \/ OnTrackStart /\ UNCHANGED <<prefixVars, powerVars, modVars, cmdVars, uiVars>>
    \/ /\ \E g \in MusicGuilds :    \* player.play() of play_next returns
            /\ starting[g] # <<>>
            /\ SetMusic(player_played(Music, g))
       /\ UNCHANGED <<prefixVars, powerVars, modVars, cmdVars, uiVars>>
    \/ /\ \E i \in OverlapIds :     \* a member in the bot's voice channel sends play
            /\ plays[i].pc = "idle"
            /\ appended < MaxTracks
            /\ \E g \in MusicGuilds : SetMusic(play(Music, i, g))
       /\ UNCHANGED <<prefixVars, powerVars, modVars, cmdVars, uiVars>>
    \/ /\ \E i \in OverlapIds :     \* fetch_tracks() of play returns
            /\ plays[i].pc = "search"
            /\ \E found \in {"exception", "nothing", "tracks", "playlist"} :
                  \E n \in Found(found) : SetMusic(play_fetched(Music, i, found, n))
       /\ UNCHANGED <<prefixVars, powerVars, modVars, cmdVars, uiVars>>
    \/ /\ \E i \in OverlapIds :     \* search_msg.edit() of play returns
            /\ plays[i].pc = "edit"
            /\ Bounded(Music)
            /\ SetMusic(play_edited(Music, i, voice[plays[i].guild].current))
       /\ UNCHANGED <<prefixVars, powerVars, modVars, cmdVars, uiVars>>

SpecOverlap == OverlapInit /\ [][OverlapNext]_vars

(***************************************************************************)
(*                cogs/error_handler.py and cogs/eng.py                    *)
(***************************************************************************)

\* A message that starts with a prefix of the bot is processed as a command:
\* the command is looked up, its checks run, its arguments are parsed, its body
\* runs; an error on the way goes to the command's own error handler, to the
\* error handler of its cog and to the on_command_error listener.

MaxRows == 3
EngUsers == {"ann", "bob"}

\* Words as sequences of code points: 65 "A", 66 "B", 97 "a", 98 "b", 32 " ".
EngWords == {<<65>>, <<97>>, <<98>>, <<66, 32, 97>>, <<98, 32, 97>>}

\* The commands of the cogs that take a required argument, or have their own
\* error handler, or belong to the eng cog: the required parameters in order,
\* whether checks guard the command, whether it has an error handler.
Command(cog, required, checks, on_error) ==
    [cog |-> cog, required |-> required, checks |-> checks, on_error |-> on_error]

Commands ==
    ("kick" :> Command("moderation", <<"member">>, TRUE, FALSE)) @@
    ("timeout" :> Command("moderation", <<"member", "duration">>, TRUE, FALSE)) @@
    ("prefix add" :> Command("prefix", <<"new_prefix">>, TRUE, FALSE)) @@
    ("purge" :> Command("purge", <<>>, TRUE, TRUE)) @@
    ("play" :> Command("music", <<"query">>, TRUE, FALSE)) @@
    ("volume" :> Command("music", <<"level">>, TRUE, FALSE)) @@
    ("eng check" :> Command("eng", <<"sentence">>, FALSE, FALSE)) @@
    ("eng word" :> Command("eng", <<>>, FALSE, FALSE)) @@
    ("eng translate" :> Command("eng", <<"text_to_translate">>, FALSE, FALSE)) @@
    ("eng vocab save" :> Command("eng", <<"word">>, FALSE, FALSE)) @@
    ("eng vocab list" :> Command("eng", <<>>, FALSE, FALSE))

\* The cogs that override cog_command_error.
CogsWithErrorHandler == {"music"}

\* setup() of cogs/eng.py adds the cog only with an API key.
Registered(name) ==
    name \in DOMAIN Commands /\ (Commands[name].cog = "eng" => gemini_api_key)

Answer(by, kind, param, usage, words) ==
    [by |-> by, kind |-> kind, param |-> param, usage |-> usage, words |-> words]

\* What handling a message did.
Outcome(error, replies, file_written, ai_called) ==
    [error |-> error, replies |-> replies, file_written |-> file_written,
     ai_called |-> ai_called]

\* (mutant) on_command_error that tells the user about an unknown command.
on_command_error_not_found(name, error, param) ==
    IF error = "CommandNotFound"
    THEN {Answer("global", "Unexpected Error", None, None, <<>>)}
    ELSE IF Commands[name].on_error \/ Commands[name].cog \in CogsWithErrorHandler THEN {}
    ELSE {Answer("global", "Other", None, None, <<>>)}

\* (mutant) on_command_error whose missing-argument embed has no usage field.
on_command_error_no_usage(name, error, param) ==
    IF error = "CommandNotFound" THEN {}
    ELSE IF Commands[name].on_error \/ Commands[name].cog \in CogsWithErrorHandler THEN {}
    ELSE CASE error = "MissingRequiredArgument" ->
                {Answer("global", "Missing Argument", param, None, <<>>)}
           [] error = "CheckFailure" ->
                {Answer("global", "Check Failed", None, None, <<>>)}
           [] OTHER ->
                {Answer("global", "Unexpected Error", None, None, <<>>)}

\* ErrorHandler.on_command_error: the replies it sends.
on_command_error(name, error, param) ==
    IF error = "CommandNotFound" THEN {}
    ELSE IF Commands[name].on_error THEN {}
    ELSE IF Commands[name].cog \in CogsWithErrorHandler THEN {}
    ELSE CASE error = "MissingRequiredArgument" ->
                {Answer("global", "Missing Argument", param, name, <<>>)}
           [] error = "CheckFailure" ->
                {Answer("global", "Check Failed", None, None, <<>>)}
           [] OTHER ->
                {Answer("global", "Unexpected Error", None, None, <<>>)}

\* ErrorHandler.on_command_error: whether it writes an error file.
log_unhandled_error_to_file(name, error) ==
    /\ error \notin {"CommandNotFound", "MissingRequiredArgument", "CheckFailure"}
    /\ ~Commands[name].on_error
    /\ Commands[name].cog \notin CogsWithErrorHandler

\* MusicCog.cog_command_error: an embed with str(error), which for a missing
\* argument reads "<param> is a required argument that is missing.".
cog_command_error(name, error, param) ==
    IF error # "CommandNotFound" /\ Commands[name].cog \in CogsWithErrorHandler
    THEN {Answer("cog", "An Error Occurred", param, None, <<>>)}
    ELSE {}

\* PurgeCog.purge_error.
purge_error(name, error) ==
    IF error # "CommandNotFound" /\ Commands[name].on_error
    THEN {Answer("command", "An error occurred", None, None, <<>>)}
    ELSE {}

\* The three handlers an error of command processing is given to.
dispatch_error(name, error, param) ==
    Outcome(error,
            purge_error(name, error) \cup cog_command_error(name, error, param)
                \cup on_command_error(name, error, param),
            log_unhandled_error_to_file(name, error), FALSE)

\* str.lower() and str.strip() on code points.
lower(word) == [i \in 1 .. Len(word) |-> IF word[i] \in 65 .. 90 THEN word[i] + 32 ELSE word[i]]

RECURSIVE strip(_)
strip(word) ==
    IF word = <<>> THEN word
    ELSE IF Head(word) = 32 THEN strip(Tail(word))
    ELSE IF word[Len(word)] = 32 THEN strip(SubSeq(word, 1, Len(word) - 1))
    ELSE word

\* ORDER BY word: the BINARY collation compares code point by code point.
RECURSIVE Before(_, _)
Before(a, b) ==
    IF a = <<>> THEN b # <<>>
    ELSE IF b = <<>> THEN FALSE
    ELSE IF Head(a) # Head(b) THEN Head(a) < Head(b)
    ELSE Before(Tail(a), Tail(b))

RECURSIVE OrderBy(_)
OrderBy(words) ==
    IF words = {} THEN <<>>
    ELSE LET first == CHOOSE x \in words : \A y \in words \ {x} : Before(x, y)
         IN <<first>> \o OrderBy(words \ {first})

\* (mutant) INSERT into a vocabulary table without UNIQUE(user_id, word).
insert_word_no_unique(rows, user_id, word) ==
    [error |-> "none",
     rows |-> rows \cup {[id |-> Cardinality(rows) + 1, user_id |-> user_id, word |-> word]}]

\* INSERT INTO vocabulary (user_id, word), under UNIQUE(user_id, word).
insert_word(rows, user_id, word) ==
    IF \E row \in rows : row.user_id = user_id /\ row.word = word
    THEN [error |-> "IntegrityError", rows |-> rows]
    ELSE [error |-> "none",
          rows |-> rows \cup {[id |-> Cardinality(rows) + 1, user_id |-> user_id, word |-> word]}]

\* eng vocab save: the reply, the table and the pairs reported as saved.
save_word(user_id, word, db_error) ==
    LET clean_word == strip(lower(word))
        done == insert_word(vocabulary, user_id, clean_word)
        said(kind, words) ==
            Outcome("none", {Answer("command", kind, None, None, words)}, FALSE, FALSE)
    IN IF clean_word = <<>>
       THEN [out |-> said("no word", <<>>), rows |-> vocabulary, saved |-> saved]
       ELSE IF db_error
       THEN [out |-> said("database error", <<clean_word>>), rows |-> vocabulary, saved |-> saved]
       ELSE IF done.error = "IntegrityError"
       THEN [out |-> said("already saved", <<clean_word>>), rows |-> vocabulary, saved |-> saved]
       ELSE [out |-> said("saved", <<clean_word>>), rows |-> done.rows,
             saved |-> saved \cup {<<user_id, clean_word>>}]

\* (mutant) eng vocab list without WHERE user_id = ?.
list_vocab_everyone(user_id) ==
    LET words == OrderBy({row.word : row \in vocabulary})
    IN Outcome("none",
               {Answer("command", IF words = <<>> THEN "no words" ELSE "list", None, None, words)},
               FALSE, FALSE)

\* eng vocab list.
list_vocab(user_id) ==
    LET words == OrderBy({row.word : row \in {r \in vocabulary : r.user_id = user_id}})
    IN Outcome("none",
               {Answer("command", IF words = <<>> THEN "no words" ELSE "list", None, None, words)},
               FALSE, FALSE)

\* eng check, eng word, eng translate behind ai_command_check: without a model
\* the reply says that the feature is unavailable, with one _call_ai is made.
ai_command_check(name, answered) ==
    IF ~model
    THEN Outcome("none", {Answer("command", "unavailable", None, None, <<>>)}, FALSE, FALSE)
    ELSE Outcome("none",
                 {Answer("command", IF answered \/ name = "eng word" THEN "result" ELSE "ai error",
                         None, None, <<>>)}, FALSE, TRUE)

\* The error that processing the message raises before the body runs, if any.
prepare(name, nargs, check_ok) ==
    IF ~Registered(name) THEN "CommandNotFound"
    ELSE IF ~check_ok THEN "CheckFailure"
    ELSE IF nargs < Len(Commands[name].required) THEN "MissingRequiredArgument"
    ELSE "none"

\* Bot.process_commands for one message.
process_commands(author, name, nargs, check_ok, word, ok) ==
    LET error == prepare(name, nargs, check_ok)
        param == IF error = "MissingRequiredArgument"
                 THEN Commands[name].required[nargs + 1] ELSE None
        same(out) == [out |-> out, rows |-> vocabulary, saved |-> saved]
    IN IF error # "none" THEN same(dispatch_error(name, error, param))
       ELSE CASE name = "eng vocab save" -> save_word(author, word, ~ok)
              [] name = "eng vocab list" -> same(list_vocab(author))
              [] name \in {"eng check", "eng word", "eng translate"} ->
                   same(ai_command_check(name, ok))
              [] OTHER ->
                   same(IF ok THEN Outcome("none", {}, FALSE, FALSE)
                        ELSE dispatch_error(name, "CommandInvokeError", None))

NoOutcome ==
    [msg |-> [author |-> None, name |-> None, nargs |-> 0, word |-> <<>>],
     out |-> Outcome("none", {}, FALSE, FALSE)]

\* EnglishLearning._initialize_model and setup: without a key there is no model
\* and no cog; with a key the model is there unless its construction raised.
CmdInit ==
    /\ gemini_api_key \in BOOLEAN
    /\ model \in BOOLEAN
    /\ model => gemini_api_key
    /\ vocabulary = {}
    /\ saved = {}
    /\ handled = NoOutcome
    /\ PrefixUnused /\ PowerUnused /\ ModUnused /\ MusicUnused /\ UiUnused

\* The names a message can invoke, the arguments it can carry, and whether the
\* checks of the command pass for its author.
Invocations ==
    {inv \in [name : DOMAIN Commands \cup {"nope"}, nargs : 0 .. 2, check_ok : BOOLEAN] :
        /\ inv.name \in DOMAIN Commands => inv.nargs <= Len(Commands[inv.name].required)
        /\ inv.name \notin DOMAIN Commands => inv.nargs = 0 /\ inv.check_ok
        /\ inv.name \in DOMAIN Commands /\ ~Commands[inv.name].checks => inv.check_ok}

\* Those that do not change the vocabulary table, and those of the eng cog.
ErrInvocations == {inv \in Invocations : inv.name = "eng vocab save" => inv.nargs = 0}
EngInvocations ==
    {inv \in Invocations : inv.name \in DOMAIN Commands /\ Commands[inv.name].cog = "eng"}

\* on_message -> process_commands, for a message that names a command.
OnMessage(invs) ==
    \E inv \in invs, author \in EngUsers, ok \in BOOLEAN :
        \E word \in IF inv.name = "eng vocab save" /\ inv.nargs = 1 THEN EngWords ELSE {<<>>} :
            LET done == process_commands(author, inv.name, inv.nargs, inv.check_ok, word, ok)
            IN /\ inv.name = "eng vocab save" => Cardinality(vocabulary) < MaxRows
               /\ handled' = [msg |-> [author |-> author, name |-> inv.name,
                                       nargs |-> inv.nargs, word |-> word],
                              out |-> done.out]
               /\ vocabulary' = done.rows
               /\ saved' = done.saved
               /\ UNCHANGED <<gemini_api_key, model>>

ErrNext ==
    \/ OnMessage(ErrInvocations) /\ UNCHANGED <<prefixVars, powerVars, modVars, musicVars, uiVars>>

EngNext ==
    \/ OnMessage(EngInvocations) /\ UNCHANGED <<prefixVars, powerVars, modVars, musicVars, uiVars>>

SpecErr == CmdInit /\ [][ErrNext]_vars
SpecEng == CmdInit /\ [][EngNext]_vars

(***************************************************************************)
(*                           cogs/mod_ping.py                              *)
(***************************************************************************)

\* One help request: its HelpRequestView, the message that carries the embed
\* and the two buttons, and the button interactions on it.  A handler runs to
\* its first await at once; editing the message and answering the interaction
\* are separate steps, between which other interactions are handled.

MaxClicks == 3
ClickIds == 1 .. MaxClicks
Requester == "req"
HelpUsers == {"req", "mod1", "mod2", "joe"}

\* The users with a role whose id is in mod_role_ids; the requester is one.
ModRoleHolders == {"req", "mod1", "mod2"}

NoClick == [button |-> "-", user |-> "-", pc |-> "idle", helper |-> None, reply |-> None]

\* HelpRequestView.__init__, and the message the modal callback sent with it.
NewRequest ==
    [status |-> "open", assigned_helper |-> None,
     message |-> [embed |-> "Ping Request", helper |-> None, view |-> TRUE]]

\* The buttons can be pressed while the message shows them; interactions are
\* numbered in the order in which they arrive.
CanClick(i) ==
    /\ clicks[i].pc = "idle"
    /\ \A j \in ClickIds : j < i => clicks[j].pc # "idle"
    /\ request.message.view

Answered(button, user, reply) ==
    [NoClick EXCEPT !.button = button, !.user = user, !.pc = "done", !.reply = reply]

\* (mutant) assign_help without the test of self.assigned_helper.
assign_help_again(i, user) ==
    /\ CanClick(i)
    /\ IF user \notin ModRoleHolders
       THEN /\ clicks' = [clicks EXCEPT ![i] = Answered("Assign", user, "no permission")]
            /\ UNCHANGED request
       ELSE IF user = Requester
       THEN /\ clicks' = [clicks EXCEPT ![i] = Answered("Assign", user, "not yourself")]
            /\ UNCHANGED request
       ELSE /\ request' = [request EXCEPT !.assigned_helper = user, !.status = "in-progress"]
            /\ clicks' = [clicks EXCEPT ![i] =
                             [NoClick EXCEPT !.button = "Assign", !.user = user,
                                             !.pc = "edit", !.helper = user]]

\* HelpRequestView.assign_help up to await self.interaction.edit_original_message.
assign_help(i, user) ==
    /\ CanClick(i)
    /\ IF user \notin ModRoleHolders
       THEN /\ clicks' = [clicks EXCEPT ![i] = Answered("Assign", user, "no permission")]
            /\ UNCHANGED request
       ELSE IF user = Requester
       THEN /\ clicks' = [clicks EXCEPT ![i] = Answered("Assign", user, "not yourself")]
            /\ UNCHANGED request
       ELSE IF request.assigned_helper # None
       THEN /\ clicks' = [clicks EXCEPT ![i] = Answered("Assign", user, "already assigned")]
            /\ UNCHANGED request
       ELSE /\ request' = [request EXCEPT !.assigned_helper = user, !.status = "in-progress"]
            /\ clicks' = [clicks EXCEPT ![i] =
                             [NoClick EXCEPT !.button = "Assign", !.user = user,
                                             !.pc = "edit", !.helper = user]]

\* HelpRequestView.close_request up to await self.interaction.edit_original_message.
\* The embed is built before the await, from the helper assigned by then.
close_request(i, user) ==
    /\ CanClick(i)
    /\ IF user \notin {Requester, request.assigned_helper}
       THEN /\ clicks' = [clicks EXCEPT ![i] = Answered("Close Request", user, "not authorized")]
            /\ UNCHANGED request
       ELSE /\ request' = [request EXCEPT !.status = "closed"]
            /\ clicks' = [clicks EXCEPT ![i] =
                             [NoClick EXCEPT !.button = "Close Request", !.user = user,
                                             !.pc = "edit",
                                             !.helper = request.assigned_helper]]

\* edit_original_message(embed=embed, view=self) of assign_help and
\* edit_original_message(embed=embed, view=None) of close_request; when the edit
\* raises, the handler ends there.
edit_original_message(i, ok) ==
    /\ clicks[i].pc = "edit"
    /\ IF ~ok
       THEN /\ clicks' = [clicks EXCEPT ![i] = [@ EXCEPT !.pc = "done", !.reply = "HTTPException"]]
            /\ UNCHANGED request
       ELSE /\ request' = [request EXCEPT !.message =
                              IF clicks[i].button = "Assign"
                              THEN [embed |-> "In Progress", helper |-> clicks[i].helper, view |-> TRUE]
                              ELSE [embed |-> "Closed", helper |-> clicks[i].helper, view |-> FALSE]]
            /\ clicks' = [clicks EXCEPT ![i].pc = "respond"]

\* interaction.response.send_message, the last statement of both handlers.
send_message(i) ==
    /\ clicks[i].pc = "respond"
    /\ clicks' = [clicks EXCEPT ![i] =
                     [@ EXCEPT !.pc = "done",
                               !.reply = IF clicks[i].button = "Assign" THEN "assigned"
                                         ELSE "closed"]]
    /\ UNCHANGED request

ModPingInit ==
    /\ request = NewRequest
    /\ clicks = [i \in ClickIds |-> NoClick]
    /\ PrefixUnused /\ PowerUnused /\ ModUnused /\ MusicUnused /\ CmdUnused
    /\ HelpUnused /\ PurgeUnused

ModPingNext ==
    \/ \E i \in ClickIds, user \in HelpUsers : assign_help(i, user)
          /\ UNCHANGED <<prefixVars, powerVars, modVars, musicVars, cmdVars, helpVars, purgeVars>>
    \/ \E i \in ClickIds, user \in HelpUsers : close_request(i, user)
          /\ UNCHANGED <<prefixVars, powerVars, modVars, musicVars, cmdVars, helpVars, purgeVars>>
    \/ \E i \in ClickIds, ok \in BOOLEAN : edit_original_message(i, ok)
          /\ UNCHANGED <<prefixVars, powerVars, modVars, musicVars, cmdVars, helpVars, purgeVars>>
    \/ \E i \in ClickIds : send_message(i)
          /\ UNCHANGED <<prefixVars, powerVars, modVars, musicVars, cmdVars, helpVars, purgeVars>>

SpecModPing == ModPingInit /\ [][ModPingNext]_vars

(***************************************************************************)
(*                             cogs/help.py                                *)
(***************************************************************************)

\* One help menu.  previous_page, next_page and HelpCogSelect.callback test
\* the user and the button, await interaction.response.defer(), and only then
\* change the page or the category: other interactions are handled in between.

MaxPresses == 3
PressIds == 1 .. MaxPresses
commands_per_page == 5
MenuAuthor == "ann"
MenuUsers == {"ann", "bob"}

\* HelpMenu.cog_commands: how many commands each category lists.
cog_commands == ("All Commands" :> 12) @@ ("Music" :> 6) @@ ("Help" :> 1)

\* The values of the dropdown: its options are built from bot.cogs, also for a
\* cog whose commands are not in cog_commands.
SelectValues == DOMAIN cog_commands \cup {"Mod ping"}

Clamp(lo, x, hi) == IF x < lo THEN lo ELSE IF x > hi THEN hi ELSE x

\* HelpMenu.update_button_states.
update_button_states(m) ==
    LET is_single_page == m.max_pages <= 1
        has_commands == m.num_commands > 0
    IN [m EXCEPT !.previous_disabled = m.current_page = 0 \/ is_single_page \/ ~has_commands,
                 !.next_disabled = m.current_page >= m.max_pages - 1 \/ is_single_page
                                      \/ ~has_commands]

\* HelpMenu.update_command_list.
update_command_list(m) ==
    LET num_commands == IF m.selected_cog \in DOMAIN cog_commands
                        THEN cog_commands[m.selected_cog] ELSE cog_commands["All Commands"]
        max_pages == Max({1, ((num_commands - 1) \div commands_per_page) + 1})
    IN update_button_states(
          [m EXCEPT !.num_commands = num_commands, !.max_pages = max_pages,
                    !.current_page = Clamp(0, m.current_page, max_pages - 1)])

\* HelpMenu.__init__.
NewMenu ==
    update_command_list([current_page |-> 0, selected_cog |-> "All Commands",
                         num_commands |-> 0, max_pages |-> 1,
                         previous_disabled |-> TRUE, next_disabled |-> TRUE])

NoPress == [item |-> "-", user |-> "-", value |-> None, pc |-> "idle"]

CanPress(i) ==
    /\ presses[i].pc = "idle"
    /\ \A j \in PressIds : j < i => presses[j].pc # "idle"

\* previous_page, next_page and HelpCogSelect.callback up to the await of
\* interaction.response.defer() (or of the reply to another user).
press(i, item, user, value) ==
    LET disabled == \/ item = "prev" /\ menu.previous_disabled
                    \/ item = "next" /\ menu.next_disabled
    IN /\ CanPress(i)
       /\ presses' = [presses EXCEPT ![i] =
                         [item |-> item, user |-> user, value |-> value,
                          pc |-> IF user # MenuAuthor THEN "not for you"
                                 ELSE IF disabled THEN "ignored" ELSE "defer"]]
       /\ UNCHANGED menu

\* The rest of the three handlers, from the return of defer() to the await of
\* interaction.edit_original_message.
deferred(i) ==
    /\ presses[i].pc = "defer"
    /\ presses' = [presses EXCEPT ![i].pc = "done"]
    /\ menu' =
          CASE presses[i].item = "prev" ->
                  update_button_states([menu EXCEPT !.current_page = @ - 1])
            [] presses[i].item = "next" ->
                  update_button_states([menu EXCEPT !.current_page = @ + 1])
            [] OTHER ->
                  IF presses[i].value \in DOMAIN cog_commands
                  THEN update_command_list([menu EXCEPT !.selected_cog = presses[i].value])
                  ELSE menu

HelpInit ==
    /\ menu = NewMenu
    /\ presses = [i \in PressIds |-> NoPress]
    /\ PrefixUnused /\ PowerUnused /\ ModUnused /\ MusicUnused /\ CmdUnused
    /\ ModPingUnused /\ PurgeUnused

HelpNext ==
    \/ \E i \in PressIds, item \in {"prev", "next"}, user \in MenuUsers :
          press(i, item, user, None)
          /\ UNCHANGED <<prefixVars, powerVars, modVars, musicVars, cmdVars, modpingVars, purgeVars>>
    \/ \E i \in PressIds, user \in MenuUsers, value \in SelectValues :
          press(i, "select", user, value)
          /\ UNCHANGED <<prefixVars, powerVars, modVars, musicVars, cmdVars, modpingVars, purgeVars>>
    \/ \E i \in PressIds : deferred(i)
          /\ UNCHANGED <<prefixVars, powerVars, modVars, musicVars, cmdVars, modpingVars, purgeVars>>

SpecHelp == HelpInit /\ [][HelpNext]_vars

(***************************************************************************)
(*                        cogs/purge.py: hardpurge                         *)
(***************************************************************************)

\* hardpurge in one channel.  Each await of the handler is a step; what the
\* platform answers (an exception included) is an input.

MaxHardpurges == 3
HardpurgeIds == 1 .. MaxHardpurges
PurgeAuthor == "ann"
PurgeUsers == {"ann", "bob"}
PurgeEmojis == {"check", "cross", "other"}

\* confirm_msg of invocation i, and a message that is not a confirmation.
PurgeMessages == HardpurgeIds \cup {0}

NoHardpurge ==
    [pc |-> "idle",
     by |-> [user |-> "-", message |-> 0, emoji |-> "-"],   \* what wait_for returned
     created |-> FALSE,                                     \* new_channel exists
     deleted |-> FALSE]                                     \* channel.delete() returned

\* The command up to wait_for: the webhooks are read, the confirmation is sent
\* and the two reactions are added; an exception of any of them ends it.
hardpurge(i, ok) ==
    /\ hardpurges[i].pc = "idle"
    /\ \A j \in HardpurgeIds : j < i => hardpurges[j].pc # "idle"
    /\ old_channel = "exists"
    /\ hardpurges' = [hardpurges EXCEPT ![i].pc = IF ok THEN "wait" ELSE "error"]
    /\ UNCHANGED <<old_channel, new_channels>>

\* (mutant) the check of wait_for without the user.
hardpurge_check_any_user(i, user, message, emoji) ==
    /\ emoji \in {"check", "cross"}
    /\ message = i

\* check(reaction, user) of invocation i.
hardpurge_check(i, user, message, emoji) ==
    /\ user = PurgeAuthor
    /\ emoji \in {"check", "cross"}
    /\ message = i

\* A reaction_add event: every waiting invocation whose check accepts it goes
\* on, to the cancellation on the cross and to the new channel otherwise.
hardpurge_on_reaction_add(user, message, emoji) ==
    /\ \E i \in HardpurgeIds :
          hardpurges[i].pc = "wait" /\ hardpurge_check(i, user, message, emoji)
    /\ hardpurges' =
          [i \in HardpurgeIds |->
              IF hardpurges[i].pc = "wait" /\ hardpurge_check(i, user, message, emoji)
              THEN [hardpurges[i] EXCEPT
                       !.by = [user |-> user, message |-> message, emoji |-> emoji],
                       !.pc = IF emoji = "cross" THEN "cancelled" ELSE "create"]
              ELSE hardpurges[i]]
    /\ UNCHANGED <<old_channel, new_channels>>

\* asyncio.TimeoutError of wait_for after 30 seconds.
hardpurge_timeout(i) ==
    /\ hardpurges[i].pc = "wait"
    /\ hardpurges' = [hardpurges EXCEPT ![i].pc = "timed out",
                                        ![i].by.emoji = "asyncio.TimeoutError"]
    /\ UNCHANGED <<old_channel, new_channels>>

\* new_channel = await ctx.guild.create_text_channel(...), and the webhooks,
\* whose failures are logged only.
create_text_channel(i, ok) ==
    /\ hardpurges[i].pc = "create"
    /\ IF ok
       THEN /\ hardpurges' = [hardpurges EXCEPT ![i].pc = "delete", ![i].created = TRUE]
            /\ new_channels' = new_channels + 1
       ELSE /\ hardpurges' = [hardpurges EXCEPT ![i].pc = "error"]
            /\ UNCHANGED new_channels
    /\ UNCHANGED old_channel

\* await channel.delete(...): NotFound when the channel is gone already.
channel_delete(i, ok) ==
    /\ hardpurges[i].pc = "delete"
    /\ IF ok /\ old_channel = "exists"
       THEN /\ hardpurges' = [hardpurges EXCEPT ![i].pc = "done", ![i].deleted = TRUE]
            /\ old_channel' = "deleted"
       ELSE /\ hardpurges' = [hardpurges EXCEPT ![i].pc = "error"]
            /\ UNCHANGED old_channel
    /\ UNCHANGED new_channels

PurgeInit ==
    /\ hardpurges = [i \in HardpurgeIds |-> NoHardpurge]
    /\ old_channel = "exists"
    /\ new_channels = 0
    /\ PrefixUnused /\ PowerUnused /\ ModUnused /\ MusicUnused /\ CmdUnused
    /\ ModPingUnused /\ HelpUnused

PurgeNext ==
    \/ \E i \in HardpurgeIds, ok \in BOOLEAN : hardpurge(i, ok)
          /\ UNCHANGED <<prefixVars, powerVars, modVars, musicVars, cmdVars, modpingVars, helpVars>>
    \/ \E user \in PurgeUsers, message \in PurgeMessages, emoji \in PurgeEmojis :
          hardpurge_on_reaction_add(user, message, emoji)
          /\ UNCHANGED <<prefixVars, powerVars, modVars, musicVars, cmdVars, modpingVars, helpVars>>
    \/ \E i \in HardpurgeIds : hardpurge_timeout(i)
          /\ UNCHANGED <<prefixVars, powerVars, modVars, musicVars, cmdVars, modpingVars, helpVars>>
    \/ \E i \in HardpurgeIds, ok \in BOOLEAN : create_text_channel(i, ok)
          /\ UNCHANGED <<prefixVars, powerVars, modVars, musicVars, cmdVars, modpingVars, helpVars>>
    \/ \E i \in HardpurgeIds, ok \in BOOLEAN : channel_delete(i, ok)
          /\ UNCHANGED <<prefixVars, powerVars, modVars, musicVars, cmdVars, modpingVars, helpVars>>

SpecPurge == PurgeInit /\ [][PurgeNext]_vars

(***************************************************************************)
(*                     Properties: cogs/power.py                           *)
(***************************************************************************)

\* C2: restart / shutdown replace or close the process only for an invocation
\* whose author's first message in the invocation's channel after the prompt
\* was exactly the generated code and arrived before the 15 s timer expired;
\* an invocation whose first such message differs from the code ends with
\* "Incorrect Code" and stays cancelled when the code is typed afterwards; a
\* timed-out invocation heard no such message; the process changes only through
\* an executed invocation of the matching command.
C2_PowerOnlyOnFirstMessageCode ==
    /\ \A i \in PowerIds :
        LET inv == power[i] IN
        /\ (inv.pc = "confirmed" \/ inv.outcome = "executed") => inv.first = inv.code
        /\ (inv.pc # "idle" /\ inv.first \notin {NoMessage, inv.code})
              => (inv.pc = "done" /\ inv.outcome = "Incorrect Code")
        /\ inv.outcome = "Timed Out" => inv.first = NoMessage
        /\ inv.outcome = "executed"
              => process = (IF inv.cmd = "restart" THEN "replaced" ELSE "closed")
    /\ process # "running" => \E i \in PowerIds : power[i].outcome = "executed"

\* C2 witness: one invocation was cancelled by a wrong first message and the
\* code typed afterwards changed nothing, another one timed out or was
\* executed after its code came first, and the process was replaced.
C2_Witness ==
    /\ process = "replaced"
    /\ \E i, j \in PowerIds :
        /\ power[i].outcome = "Incorrect Code" /\ power[i].code_after
        /\ power[j].outcome = "executed" /\ power[j].cmd = "restart"

(***************************************************************************)
(*                     Properties: cogs/prefix.py                          *)
(***************************************************************************)

\* The cache entry of a guild, an absent key read as the empty set.
Cached(guild_id) ==
    IF guild_id \in DOMAIN prefix_cache THEN prefix_cache[guild_id] ELSE {}

\* A reply that this step hands to ctx.send.
NewlySent(reply) == CopiesIn(reply, prefix_replies') > CopiesIn(reply, prefix_replies)

PrefixStateUnchanged ==
    guild_prefixes' = guild_prefixes /\ prefix_cache' = prefix_cache

\* C7: in every reachable state and for every guild, get_prefix returns the
\* default prefix followed by exactly the custom prefixes stored for the guild
\* in guild_prefixes, each once, and prefix_cache holds exactly the stored ones.
C7_ActivePrefixesAreDefaultPlusStored ==
    \A g \in Guilds :
        LET l == get_prefix(g) IN
        /\ l[1] = default_prefix
        /\ Len(l) = 1 + Cardinality(Stored(g))
        /\ {l[i] : i \in 2..Len(l)} = Stored(g)
        /\ Cached(g) = Stored(g)

\* C7 witness: a remove succeeded in guild 1 that still stores other custom
\* prefixes, while guild 2 was filled and cleared (an empty cache entry).
C7_Witness ==
    /\ \E r \in BagToSet(prefix_replies) :
          r.guild = 1 /\ r.text = "removed successfully." /\ Stored(1) # {}
    /\ 2 \in DOMAIN prefix_cache /\ prefix_cache[2] = {}

\* The prefixes active for a guild: the default one and the stored ones.
Active(guild_id) == {default_prefix} \cup Stored(guild_id)

\* C8 (as claimed): every prefix add of a prefix already active for the guild
\* leaves table and cache unchanged and is answered with "already exists" or
\* "is the default prefix and cannot be added again".
C8_DuplicateAddToldAlreadyExists ==
    [][\A r \in BagToSet(prefix_replies') :
          (NewlySent(r) /\ r.cmd = "add" /\ r.arg \in Active(r.guild))
          => /\ PrefixStateUnchanged
             /\ r.text \in {"already exists.",
                            "is the default prefix and cannot be added again."}]_vars

\* C8 (amended): every prefix add of a prefix already active for the guild
\* leaves table and cache unchanged; it is answered with "already exists" or
\* "cannot be added again", or, exactly when the guild already holds 9 custom
\* prefixes, with "Maximum number of custom prefixes reached (9)".
C8_DuplicateAddRejected ==
    [][\A r \in BagToSet(prefix_replies') :
          (NewlySent(r) /\ r.cmd = "add" /\ r.arg \in Active(r.guild))
          => /\ PrefixStateUnchanged
             /\ IF Cardinality(Stored(r.guild)) >= 9
                THEN r.text = "Maximum number of custom prefixes reached (9)."
                ELSE r.text \in {"already exists.",
                                 "is the default prefix and cannot be added again."}]_vars

\* C8 witness: an add of a stored prefix was answered in a guild that holds 9.
C8_Witness ==
    \E r \in BagToSet(prefix_replies) :
        /\ r.cmd = "add" /\ r.arg \in Stored(r.guild)
        /\ Cardinality(Stored(r.guild)) = 9
        /\ r.text = "Maximum number of custom prefixes reached (9)."

\* C9: every prefix remove of the default prefix is answered "Cannot remove
\* the default prefix" without opening the database and leaves table and cache
\* unchanged; and in every reachable state the default prefix is in every
\* guild's active list and is not a stored row.
C9_DefaultPrefixNeverRemoved ==
    /\ [](\A g \in Guilds :
            /\ \E i \in 1..Len(get_prefix(g)) : get_prefix(g)[i] = default_prefix
            /\ default_prefix \notin Stored(g))
    /\ [][\A r \in BagToSet(prefix_replies') :
            (NewlySent(r) /\ r.cmd = "remove" /\ r.arg = default_prefix)
            => /\ PrefixStateUnchanged
               /\ r.text = "Cannot remove the default prefix"
               /\ r.db = FALSE]_vars

\* C9 witness: the removal of the default prefix was refused in a guild that
\* stores custom prefixes, after a clear in the other guild.
C9_Witness ==
    \E r, c \in BagToSet(prefix_replies) :
        /\ r.cmd = "remove" /\ r.arg = default_prefix /\ Stored(r.guild) # {}
        /\ c.cmd = "clear" /\ c.text = "All custom prefixes removed."

\* C10: in every reachable state every guild stores at most 9 custom prefixes.
C10_AtMostNineCustomPrefixes ==
    \A g \in Guilds : Cardinality(Stored(g)) <= 9

\* C10 witness: a guild holds 9 custom prefixes while two add commands for it
\* are in flight, one accepted and one refused at the limit.
C10_Witness ==
    \E g \in Guilds :
        /\ Cardinality(Stored(g)) = 9
        /\ \E a, b \in BagToSet(prefix_replies) :
              /\ a.cmd = "add" /\ a.guild = g /\ a.text = "added successfully."
              /\ b.cmd = "add" /\ b.guild = g
              /\ b.text = "Maximum number of custom prefixes reached (9)."

\* Table and cache of guild h are after the step what they were before it.
GuildPrefixesUntouched(h) ==
    /\ Stored(h)' = Stored(h)
    /\ (h \in DOMAIN prefix_cache') = (h \in DOMAIN prefix_cache)
    /\ Cached(h)' = Cached(h)

\* C11: every step of the prefix cog (add, remove, clear in a guild, the
\* guild-remove cleanup of a guild) changes the stored and the cached prefixes
\* of at most one guild, and a step that answers a command of guild g leaves
\* table and cache of every other guild as they were.
C11_OtherGuildsUntouched ==
    [][/\ \E g \in Guilds : \A h \in Guilds \ {g} : GuildPrefixesUntouched(h)
       /\ \A r \in BagToSet(prefix_replies') :
             NewlySent(r) => \A h \in Guilds \ {r.guild} : GuildPrefixesUntouched(h)]_vars

\* C11 witness: guild 2 got a prefix and lost it again (its add is still being
\* answered, its cache entry is gone or empty) while guild 1 holds all the
\* prefixes that it was loaded with.
C11_Witness ==
    /\ Stored(1) = PreStored /\ Cached(1) = PreStored
    /\ Stored(2) = {} /\ Cached(2) = {}
    /\ \E r \in BagToSet(prefix_replies) :
          r.guild = 2 /\ r.cmd = "add" /\ r.text = "added successfully."

(***************************************************************************)
(*                   Properties: cogs/moderation.py                        *)
(***************************************************************************)

\* The handler of invocation i is past its checks and has not returned.
InFlight(i) == mod[i].pc \in {"prompt", "wait", "create", "act", "log"}

\* The command's author put the check mark on this command's own prompt.
ConfirmedByAuthor(i) ==
    mod[i].by = [user |-> mod[i].author, message |-> ConfirmMessage(i), emoji |-> "check"]

C1_Gate ==
    \A i \in ModIds : mod[i].cmd \in {"kick", "ban"} =>
        /\ mod[i].pc \in {"create", "act", "log"} => ConfirmedByAuthor(i)
        /\ mod[i].pc \in {"prompt", "wait"} =>
              mod[i].case_id = Nothing /\ ~mod[i].dm /\ ~mod[i].acted

C1_WaitEnds ==
    \A i \in ModIds :
        /\ mod[i].cmd \in {"kick", "ban"}
        /\ mod[i].pc \in {"prompt", "wait"}
        /\ mod'[i].pc \notin {"prompt", "wait"}
        => \/ mod'[i].pc = "create" /\ ConfirmedByAuthor(i)'
           \/ /\ mod'[i].pc = "done" /\ mod'[i].outcome = "Action Cancelled"
              /\ cases' = cases /\ sqlite_sequence' = sqlite_sequence

\* C1: a kick or ban gets to create_case, to the DM and to the platform kick /
\* ban call only after the command's author put the check mark on that
\* command's own confirmation message; while it prompts or waits it has no
\* case row, sent no DM and made no call, and a wait that ends in any other way
\* (cross, timeout, prompt not posted) ends the command as cancelled and leaves
\* the case tables as they were.  Reactions by others or on other messages do
\* not end the wait.
C1_KickBanOnlyAfterAuthorConfirms == [](C1_Gate) /\ [][C1_WaitEnds]_vars

\* A kick was carried out after its author confirmed it, while a ban that
\* saw the same reactions is still waiting.
C1_Witness ==
    \E i, j \in ModIds :
        /\ mod[i].cmd = "kick" /\ mod[i].acted /\ ConfirmedByAuthor(i)
        /\ mod[j].cmd = "ban" /\ mod[j].pc = "wait"

HierarchyFails == {"undetermined", "at or above invoker", "at or above bot"}

\* C3: kick, ban, timeout and untimeout fail closed on the role hierarchy: an
\* invocation whose target stands at or above the invoker (who is not the
\* owner) or at or above the bot, or for which the roles of invoker or bot
\* cannot be determined, does not get past its checks (so it creates no case
\* row and makes no platform call).
C3_HierarchyFailsClosed ==
    \A i \in ModIds :
        mod[i].cmd \in {"kick", "ban", "timeout", "untimeout"} /\ InFlight(i)
        => mod[i].hier \notin HierarchyFails

CaseIds(g) == IF g \in DOMAIN cases THEN {r.case_id : r \in cases[g]} ELSE {}
CaseRows(g) == IF g \in DOMAIN cases THEN cases[g] ELSE {}

\* Invocation i has carried out its action.
CarriedOut(i) == mod[i].acted \/ (mod[i].cmd = "warn" /\ mod[i].pc = "log")

C4_Ids ==
    /\ \A g \in DOMAIN cases : Cardinality(CaseIds(g)) = Cardinality(cases[g])
    /\ \A i \in ModIds : CarriedOut(i) =>
          /\ mod[i].case_id # Nothing
          /\ Cardinality({r \in CaseRows(mod[i].guild) :
                             r.case_id = mod[i].case_id[1]}) = 1
    /\ \A i, j \in ModIds :
          /\ i # j /\ mod[i].guild = mod[j].guild
          /\ mod[i].case_id # Nothing /\ mod[j].case_id # Nothing
          => mod[i].case_id # mod[j].case_id

C4_Insert ==
    \A i \in ModIds : mod[i].case_id = Nothing /\ mod'[i].case_id # Nothing =>
        LET g == mod[i].guild
            id == mod'[i].case_id[1]
        IN  /\ \A c \in CaseIds(g) : id > c
            /\ id = Max(CaseIds(g) \cup {0}) + 1
            /\ \E r \in cases'[g] :
                  /\ r.case_id = id /\ r \notin CaseRows(g)
                  /\ cases'[g] = CaseRows(g) \cup {r}
            /\ \A h \in DOMAIN cases \ {g} : cases'[h] = cases[h]

\* C4: every moderation action that is carried out has inserted exactly one
\* row into its guild's case table; the row's case_id is greater than every
\* earlier case_id of that guild, is one more than the largest of them (so it
\* does not depend on other guilds, whose tables the insert leaves alone), and
\* two invocations in flight in one guild never hold the same case_id.
C4_OneRowPerActionGuildLocalIds == [](C4_Ids) /\ [][C4_Insert]_vars

\* Two actions are in flight in guild 1, both carried out, with two ids.
C4_Witness ==
    \E i, j \in ModIds :
        /\ i # j /\ mod[i].guild = 1 /\ mod[j].guild = 1
        /\ CarriedOut(i) /\ CarriedOut(j)
        /\ mod[i].case_id # mod[j].case_id

MaxCaseId == NumOld + Cardinality(ModIds) + 1

\* get_case for ids that guild never issued.
NeverIssuedIsNone ==
    \A g \in Guilds, c \in 1..MaxCaseId :
        (g \notin DOMAIN sqlite_sequence \/ c > sqlite_sequence[g])
        => get_case(g, c, FALSE) = Nothing

\* C5 as stated: get_case of a case an invocation created returns the action,
\* user and moderator of the command and the reason and duration the command
\* was given; ids never issued in the guild yield nothing.
C5_GetCaseReturnsWhatCommandWasGiven ==
    /\ \A i \in ModIds : mod[i].case_id # Nothing =>
          LET found == get_case(mod[i].guild, mod[i].case_id[1], FALSE) IN
          /\ found # Nothing
          /\ found[1].action = mod[i].cmd
          /\ found[1].user_id = mod[i].target
          /\ found[1].moderator_id = mod[i].author
          /\ found[1].reason = mod[i].given_reason
          /\ found[1].duration = mod[i].duration
    /\ NeverIssuedIsNone

\* What the handlers hand to create_case for the arguments they were given.
ExpectedReason(inv) ==
    IF inv.cmd \in {"unban", "untimeout"} /\ inv.given_reason = None
    THEN "No reason provided." ELSE inv.given_reason
ExpectedDuration(inv) ==
    CASE inv.duration = "90s" -> "1m 30s"
      [] inv.duration = "29d" -> "29d"
      [] OTHER -> None

\* C5 (amended): get_case of a case an invocation created returns, when the
\* read succeeds, the action, user and moderator of the command, the reason
\* the command was given (for unban and untimeout without a reason: "No reason
\* provided.") and, for timeout, the parsed duration as format_duration writes
\* it (90s is stored as 1m 30s), whatever other cases were created since; ids
\* never issued in the guild yield nothing.
C5_GetCaseReturnsWhatWasStored ==
    /\ \A i \in ModIds : mod[i].case_id # Nothing =>
          LET found == get_case(mod[i].guild, mod[i].case_id[1], FALSE) IN
          /\ found # Nothing
          /\ found[1].action = mod[i].cmd
          /\ found[1].user_id = mod[i].target
          /\ found[1].moderator_id = mod[i].author
          /\ found[1].reason = ExpectedReason(mod[i])
          /\ found[1].duration = ExpectedDuration(mod[i])
    /\ NeverIssuedIsNone

\* An unban without reason and a timeout of 90s hold cases of one guild, the
\* timeout's created after the unban's.
C5_Witness ==
    \E i, j \in ModIds :
        /\ mod[i].cmd = "unban" /\ mod[i].given_reason = None
        /\ mod[j].cmd = "timeout" /\ mod[j].duration = "90s"
        /\ mod[i].guild = mod[j].guild
        /\ mod[i].case_id # Nothing /\ mod[j].case_id # Nothing
        /\ mod[j].case_id[1] > mod[i].case_id[1]

\* C6: a guild's case table is append-only: every step keeps every table and
\* every row of it as it is (user, moderator, action, reason and duration of
\* an id never change), and a row that is new carries an id the table did not
\* hold.
C6_CaseTableAppendOnly ==
    [][\A g \in DOMAIN cases :
          /\ g \in DOMAIN cases'
          /\ cases[g] \subseteq cases'[g]
          /\ \A r \in cases'[g] \ cases[g] : r.case_id \notin CaseIds(g)]_vars

\* Guild 1 got a case and then a modlog channel, and still holds its old rows.
C6_Witness ==
    /\ mod_log_channels[1] # None
    /\ Cardinality(cases[1]) > NumOld
    /\ OldCases \subseteq cases[1]

(***************************************************************************)
(*                     Properties: cogs/music.py                           *)
(***************************************************************************)

Sleeping(g) == {k \in TimerIds : tasks[k].pc = "sleep" /\ tasks[k].guild = g}
Alive(g) == {k \in TimerIds : tasks[k].pc # "free" /\ tasks[k].guild = g}

\* A track-end event of guild g that is not REPLACED is handled in this step.
TrackEnds(g) ==
    /\ voice[g].current # Nothing /\ ~voice[g].start_pending
    /\ <<guild_states, voice, tasks, played>>' # <<guild_states, voice, tasks, played>>

\* C12: with autoplay off and a connected player, each play_next step that a
\* track-end event causes takes the head of the queue, hands it to the player
\* and schedules nothing while the queue has tracks; on the empty queue it sets
\* current_track to none and schedules the one disconnect.  So the N appended
\* tracks are played once each by N steps, and the disconnect is scheduled by
\* step N+1, when all N were played and the queue is empty.
C12_Step(g) ==
    LET state == guild_states[g] IN
    IF state.queue # <<>>
    THEN /\ guild_states'[g].queue = Tail(state.queue)
         /\ guild_states'[g].current_track = Some(Head(state.queue))
         /\ played'[g] = Append(played[g], Head(state.queue))
         /\ voice'[g].current = Some(Head(state.queue))
         /\ tasks' = tasks
    ELSE /\ guild_states'[g].queue = <<>>
         /\ guild_states'[g].current_track = Nothing
         /\ played'[g] = played[g]
         /\ voice'[g].current = Nothing
         /\ Sleeping(g) = {} /\ Cardinality(Sleeping(g)') = 1
         /\ guild_states'[g].disconnect_task

C12_Scheduled(g) ==
    Alive(g) # {} =>
        /\ guild_states[g].queue = <<>>
        /\ guild_states[g].current_track = Nothing
        /\ Len(played[g]) = appended
        /\ Cardinality(Alive(g)) = 1

C12_PlayNextDrainsQueueThenSchedules ==
    /\ [](\A g \in MusicGuilds : C12_Scheduled(g))
    /\ [][\A g \in MusicGuilds :
            /\ played'[g] \o guild_states'[g].queue = played[g] \o guild_states[g].queue
            /\ TrackEnds(g) => C12_Step(g)]_vars

C12_Witness ==
    /\ played[1] = <<3, 1, 1>>
    /\ appended = 3
    /\ guild_states[1].queue = <<>>
    /\ guild_states[1].current_track = Nothing
    /\ Cardinality(Sleeping(1)) = 1

QueueOf(g) == IF g \in DOMAIN guild_states THEN guild_states[g].queue ELSE <<>>
Increasing(q) == \A a, b \in 1 .. Len(q) : a < b => q[a] < q[b]
IsPrefix(p, q) == Len(p) <= Len(q) /\ SubSeq(q, 1, Len(p)) = p

\* C13: tracks carry the number of their arrival in the queue.  The tracks of a
\* guild are handed to the player in ascending order and every track still
\* queued arrived after every track already played; a step that plays a track
\* takes the head of the queue, and a step that makes the queue longer leaves
\* what was queued in place at the front and plays nothing.
C13_Step(g) ==
    LET q == QueueOf(g) IN
    /\ played'[g] # played[g] =>
          /\ q # <<>>
          /\ played'[g] = Append(played[g], Head(q))
          /\ QueueOf(g)' = Tail(q)
    /\ Len(QueueOf(g)') > Len(q) => IsPrefix(q, QueueOf(g)') /\ played'[g] = played[g]
    /\ \/ QueueOf(g)' = q
       \/ QueueOf(g)' = <<>>
       \/ q # <<>> /\ QueueOf(g)' = Tail(q) /\ played'[g] # played[g]
       \/ Len(QueueOf(g)') > Len(q)

C13_TracksPlayedInQueueOrder ==
    /\ [](\A g \in MusicGuilds : Increasing(played[g] \o QueueOf(g)))
    /\ [][\A g \in MusicGuilds : C13_Step(g)]_vars

C13_Witness ==
    /\ played[1] = <<1, 2>>
    /\ QueueOf(1) = <<3>>
    /\ voice[1].current = Some(2)
    /\ 1 \in DOMAIN guild_states /\ guild_states[1].current_track = Some(2)

\* The track-start event of the track the player of guild g holds is handled.
TrackStarts(g) ==
    voice[g].start_pending /\ voice'[g].connected /\ ~voice'[g].start_pending

\* C14: when on_track_start has run for a guild, no inactivity timer scheduled
\* earlier for that guild is alive any more, so none can fire while the track
\* plays.
C14_TrackStartCancelsEveryTimer ==
    [][\A g \in MusicGuilds : TrackStarts(g) => Alive(g)' = {}]_vars

\* The music state of guild g is deleted in this step.
Destroyed(g) == g \in DOMAIN guild_states /\ g \notin DOMAIN guild_states'

\* The sleep of timer k ends in this step (it is not cancelled): the timer goes
\* on to disconnect the player, or finds no player and deletes the state.
Fires(k) ==
    /\ tasks[k].pc = "sleep"
    /\ \/ tasks'[k].pc = "leave"
       \/ /\ tasks'[k].pc = "free" /\ leaving' = leaving
          /\ tasks[k].guild \notin DOMAIN guild_states'

\* The disconnect command of guild g finishes in this step.
Leaves(g) == g \in leaving /\ g \notin leaving'

\* C15: the music state of a guild is deleted only by a step of the disconnect
\* command or of an inactivity timer, and the sleep of a timer ends in a
\* disconnect and a deletion only if since the timer was scheduled no track was
\* queued and none started, and the queue is empty.
C15_StateDestroyedOnlyAfterQuietWindow ==
    [][/\ \A g \in MusicGuilds :
            Destroyed(g) =>
                \/ Leaves(g)
                \/ \E k \in TimerIds : tasks[k].guild = g /\ tasks[k].pc # "free" /\ tasks'[k].pc = "free"
       /\ \A k \in TimerIds :
            Fires(k) => ~tasks[k].active /\ QueueOf(tasks[k].guild) = <<>>]_vars

(***************************************************************************)
(*        Properties: cogs/error_handler.py and command processing         *)
(***************************************************************************)

RepliesOf(kind) == {reply \in handled.out.replies : reply.kind = kind}

\* C16: a message that invokes a command name which is not registered gets no
\* reply and raises no further error: the global error handler logs the
\* CommandNotFound and returns, no error file is written and nothing else runs.
C16_UnknownCommandIsIgnored ==
    ~Registered(handled.msg.name) /\ handled.msg.name # None =>
        /\ handled.out.error = "CommandNotFound"
        /\ handled.out.replies = {}
        /\ ~handled.out.file_written
        /\ ~handled.out.ai_called

\* A name no cog registers was invoked, in a bot whose known commands do answer.
C16_Witness ==
    /\ handled.msg.name = "nope"
    /\ handled.out.error = "CommandNotFound"
    /\ handled.out.replies = {}

\* The message left out the required argument `param` of the command it names.
Missing(param) ==
    /\ Registered(handled.msg.name)
    /\ handled.msg.nargs < Len(Commands[handled.msg.name].required)
    /\ param = Commands[handled.msg.name].required[handled.msg.nargs + 1]

\* A reply that names the missing argument and shows the usage of the command.
UsageHint(reply, param) == reply.param = param /\ reply.usage = handled.msg.name

SaveRan ==
    /\ handled.msg.name = "eng vocab save"
    /\ handled.out.error = "none"

Normalised(word) == strip(lower(word))

\* The step is a vocab save, by `author`, of a word this user saved before.
SavesAgain(author, word) ==
    /\ handled'.msg = [author |-> author, name |-> "eng vocab save", nargs |-> 1, word |-> word]
    /\ handled'.out.error = "none"
    /\ <<author, Normalised(word)>> \in saved

ListRan ==
    /\ handled.msg.name = "eng vocab list"
    /\ handled.out.error = "none"

Listed == UNION {{reply.words} : reply \in handled.out.replies}

\* C19: vocab list returns exactly the words the invoking user has saved, each
\* once, in ascending order, and never a word that only another user saved.
C19_ListIsOwnWordsSorted ==
    ListRan =>
        /\ Cardinality(handled.out.replies) = 1
        /\ \A words \in Listed :
              /\ {words[i] : i \in 1 .. Len(words)} =
                    {pair[2] : pair \in {p \in saved : p[1] = handled.msg.author}}
              /\ \A i, j \in 1 .. Len(words) : i < j => Before(words[i], words[j])

\* ann lists her two words, "a" before "b a", while bob has saved "b", which is
\* between the two and is not listed.
C19_Witness ==
    /\ ListRan /\ handled.msg.author = "ann"
    /\ Listed = {<<(<<97>>), <<98, 32, 97>>>>}
    /\ <<"bob", <<98>>>> \in saved

\* The last message invoked one of the AI features.
AiFeatureInvoked == handled.msg.name \in {"eng check", "eng word", "eng translate"}

\* C20: when no AI credential is configured, invoking an AI feature (eng check,
\* eng word, eng translate) makes no call to the AI endpoint and the user gets
\* the reply that the feature is unavailable.
C20_NoCredentialRepliesUnavailable ==
    ~gemini_api_key /\ AiFeatureInvoked =>
        /\ ~handled.out.ai_called
        /\ RepliesOf("unavailable") # {}

(***************************************************************************)
(*           Properties: cogs/moderation.py, failures and modlog           *)
(***************************************************************************)

\* The step is the platform call of invocation i, and the call fails.
PlatformCallFails(i) ==
    /\ mod[i].pc = "act" /\ mod[i].cmd # "warn"
    /\ mod'[i].pc = "done"
    /\ mod'[i].outcome \in PlatformResults \ {"ok"}

\* C27: if the platform call of a kick, ban, unban, timeout or untimeout fails,
\* the invocation leaves the guild's case table as it was before the command:
\* no case row records the action that was not carried out.
C27_FailedActionLeavesNoCase ==
    [][\A i \in ModIds :
          PlatformCallFails(i) =>
              \A row \in cases'[mod[i].guild] : <<row.case_id>> # mod[i].case_id]_vars

\* The step sends the modlog announcement of invocation i.
Announces(i) == mod'[i].logged /\ ~mod[i].logged

\* C28: the modlog announcement of a moderation action is sent only after its
\* case row was created and the platform call (kick, ban, unban, timeout,
\* untimeout) succeeded, and at most once per action: sending it ends the
\* invocation, and an invocation that has ended sends nothing more; cancelled,
\* rejected and failed actions have ended without an announcement.
C28_ModlogOnlyAfterCaseAndAction ==
    /\ [](\A i \in ModIds : mod[i].logged =>
              mod[i].pc = "done" /\ mod[i].outcome = "Successful")
    /\ [][\A i \in ModIds :
            /\ Announces(i) =>
                  /\ mod[i].pc = "log" /\ mod'[i].pc = "done"
                  /\ mod[i].case_id # Nothing
                  /\ \E row \in cases[mod[i].guild] :
                        <<row.case_id>> = mod[i].case_id /\ row.action = mod[i].cmd
                  /\ mod[i].cmd # "warn" => mod[i].acted
            /\ mod[i].pc = "done" => mod'[i] = mod[i]]_vars

\* A kick was carried out and announced in the guild's modlog channel.
C28_Witness ==
    \E i \in ModIds :
        /\ mod[i].logged /\ mod[i].outcome = "Successful"
        /\ mod_log_channels[1] # None
        /\ \E row \in cases[1] : row.action = "kick" /\ row.case_id > NumOld
        /\ \A j \in ModIds \ {i} : mod[j].outcome = "Modlog Updated" \/ mod[j].pc = "idle"

(***************************************************************************)
(*                     Properties: cogs/mod_ping.py                        *)
(***************************************************************************)

\* The interactions whose Assign went through.
Assigned == {i \in ClickIds : clicks[i].button = "Assign" /\
                              (clicks[i].pc \in {"edit", "respond"} \/
                               clicks[i].reply \in {"assigned", "HTTPException"})}

\* C24: a help request is assigned to at most one helper: Assign succeeds only
\* for a user who holds a configured mod role and is not the requester, and
\* only while no helper is assigned; once set, the assigned helper never
\* changes, also when two moderators press Assign concurrently.
C24_AtMostOneHelper ==
    /\ [](/\ request.assigned_helper \in {None} \cup (ModRoleHolders \ {Requester})
          /\ Cardinality(Assigned) <= 1
          /\ \A i \in Assigned : clicks[i].user = request.assigned_helper)
    /\ [][/\ request.assigned_helper # None =>
                request'.assigned_helper = request.assigned_helper
          /\ request'.assigned_helper # request.assigned_helper =>
                \E i \in ClickIds :
                    /\ clicks[i].pc = "idle" /\ clicks'[i].button = "Assign"
                    /\ clicks'[i].user = request'.assigned_helper]_vars

\* Two moderators pressed Assign one after the other before the message was
\* edited: the first is the helper, the second was told so.
C24_Witness ==
    /\ clicks[1].button = "Assign" /\ clicks[1].user = "mod1" /\ clicks[1].pc = "edit"
    /\ clicks[2].button = "Assign" /\ clicks[2].user = "mod2"
    /\ clicks[2].reply = "already assigned"
    /\ request.assigned_helper = "mod1"

\* C29: once a help request has been closed its status stays closed: no later
\* button interaction changes its status, assigns a helper or re-attaches the
\* buttons to the message, and only the requester or the assigned helper can
\* close it.
C29_ClosedStaysClosed ==
    [][/\ request.status = "closed" =>
             /\ request'.status = "closed"
             /\ request'.assigned_helper = request.assigned_helper
             /\ request.message.embed = "Closed" => request'.message = request.message
       /\ request.status # "closed" /\ request'.status = "closed" =>
             \E i \in ClickIds :
                 /\ clicks[i].pc = "idle" /\ clicks'[i].button = "Close Request"
                 /\ clicks'[i].user \in {Requester, request.assigned_helper}]_vars

(***************************************************************************)
(*                       Properties: cogs/help.py                          *)
(***************************************************************************)

\* max(1, ceil(number of commands of the selected category / 5)).
PagesOf(cog) == Max({1, (cog_commands[cog] + commands_per_page - 1) \div commands_per_page})

PageInRange ==
    /\ menu.max_pages = PagesOf(menu.selected_cog)
    /\ menu.current_page \in 0 .. menu.max_pages - 1
    /\ menu.previous_disabled <=> menu.current_page = 0
    /\ menu.next_disabled <=> menu.current_page = menu.max_pages - 1

\* The step handles, to its end, an interaction of a user other than the author.
OtherUserActs ==
    \E i \in PressIds : presses'[i] # presses[i] /\ presses'[i].user # MenuAuthor

\* C30: after any sequence of Prev, Next and category-selection interactions,
\* current_page stays within 0..max_pages-1, where max_pages is
\* max(1, ceil(number of commands of the selected category / 5)); Prev is
\* disabled exactly on the first page and Next on the last, and interactions
\* of users other than the menu's author change neither page nor category.
C30_PageStaysInRange ==
    /\ [](PageInRange)
    /\ [][OtherUserActs => menu' = menu]_vars

(***************************************************************************)
(*                      Properties: cogs/purge.py                          *)
(***************************************************************************)

\* Invocation i got the author's check mark on its own confirmation message.
ConfirmedByPurgeAuthor(i) ==
    hardpurges[i].by = [user |-> PurgeAuthor, message |-> i, emoji |-> "check"]

\* C25: hardpurge deletes the original channel only after the command author
\* confirmed with the check mark on the confirmation message within the 30
\* seconds and the replacement channel was created; on a cross, on timeout and
\* when creating the replacement fails the original channel is not deleted,
\* and on a cross or timeout no replacement channel is created.
C25_DeleteOnlyAfterConfirmAndCreate ==
    /\ [](/\ \A i \in HardpurgeIds :
                /\ hardpurges[i].deleted =>
                      ConfirmedByPurgeAuthor(i) /\ hardpurges[i].created
                /\ hardpurges[i].created => ConfirmedByPurgeAuthor(i)
                /\ hardpurges[i].pc \in {"cancelled", "timed out"} =>
                      ~hardpurges[i].created /\ ~hardpurges[i].deleted
                /\ hardpurges[i].pc = "error" /\ ~hardpurges[i].created =>
                      ~hardpurges[i].deleted
          /\ old_channel = "deleted" <=> \E i \in HardpurgeIds : hardpurges[i].deleted
          /\ new_channels = Cardinality({i \in HardpurgeIds : hardpurges[i].created}))
    /\ [][/\ old_channel' # old_channel =>
                \E i \in HardpurgeIds :
                    /\ hardpurges[i].pc = "delete" /\ hardpurges[i].created
                    /\ ConfirmedByPurgeAuthor(i)
          /\ \A i \in HardpurgeIds :
                hardpurges[i].pc \in {"cancelled", "timed out", "error", "done"} =>
                    hardpurges'[i] = hardpurges[i]]_vars

\* One invocation was confirmed, created the replacement and deleted the
\* channel; another one was cancelled with the cross and created nothing.
C25_Witness ==
    /\ old_channel = "deleted" /\ new_channels = 1
    /\ \E i, j \in HardpurgeIds :
          /\ hardpurges[i].pc = "done" /\ hardpurges[i].deleted
          /\ hardpurges[j].pc = "cancelled" /\ hardpurges[j].by.emoji = "cross"

(***************************************************************************)
(*              Properties of cogs/music.py: skip, stop, volume            *)
(***************************************************************************)

\* volume command i was answered without a change: its level was out of range,
\* or the bot was in no voice channel.
Rejected(i) ==
    /\ controls[i].pc = "idle"
    /\ controls'[i].cmd = "volume"
    /\ \/ controls'[i].level \notin 0 .. 150
       \/ ~voice[controls'[i].guild].connected

\* C23: the stored volume of every guild state is within 0..150 (a fresh state
\* holds 50), and a volume command whose level is outside 0..150, or which is
\* given while the bot is in no voice channel, changes neither a stored volume
\* nor a player volume.
C23_VolumeInRange ==
    /\ [](\A g \in DOMAIN guild_states : guild_states[g].volume \in 0 .. 150)
    /\ [](GuildMusicState.volume = 50)
    /\ [][\A i \in ControlIds :
            Rejected(i) => guild_states' = guild_states /\ player_volume' = player_volume]_vars

\* Volume was set to 150, then a volume command with 151 was rejected: the
\* stored volume and the player volume are still 150.
C23_Witness ==
    \E i, j \in ControlIds, g \in MusicGuilds :
        /\ controls[i] = [NoControl EXCEPT !.pc = "done", !.cmd = "volume", !.guild = g,
                                           !.level = 150, !.reply = "Volume set"]
        /\ controls[j] = [NoControl EXCEPT !.pc = "done", !.cmd = "volume", !.guild = g,
                                           !.level = 151,
                                           !.reply = "Volume must be between 0 and 150."]
        /\ guild_states[g].volume = 150
        /\ player_volume[g] = Some(150)

\* A stop command that found a track playing has completed in guild g.
Stopped(g) ==
    \E i \in ControlIds :
        /\ controls[i].cmd = "stop" /\ controls[i].guild = g /\ controls[i].pc = "done"
        /\ controls[i].skipped # Nothing

\* C21: once a stop command has completed in a guild that was playing (and no
\* play command follows), no track is handed to the guild's player any more,
\* with autoplay on or off, and when the end of the stopped track has been
\* dispatched the queue is empty, current_track is None and the player has no
\* current track.
C21_StopLeavesNothingPlaying ==
    /\ [](\A g \in MusicGuilds :
            Stopped(g) /\ g \notin ending /\ g \in DOMAIN guild_states =>
                /\ guild_states[g].queue = <<>>
                /\ guild_states[g].current_track = Nothing
                /\ voice[g].current = Nothing)
    /\ [][\A g \in MusicGuilds :
            Stopped(g) => voice'[g].current \in {voice[g].current, Nothing}]_vars

\* C22: a skip ends the track that was current when it was invoked and no other
\* track (its player.stop() calls end at most one track, and never a track that
\* was queued), and the track its reply names as Up Next is the one that was at
\* the head of the queue when it was invoked.
C22_SkipEndsOnlyCurrentTrack ==
    \A i \in ControlIds :
        controls[i].cmd = "skip" =>
            /\ Len(controls[i].ended) <= 1
            /\ \A j \in DOMAIN controls[i].ended : Some(controls[i].ended[j]) = controls[i].skipped
            /\ controls[i].reply = "Skipped" => controls[i].up_next = controls[i].head

(***************************************************************************)
(*              Properties of cogs/music.py: overlapping play commands     *)
(***************************************************************************)

\* C26: play commands that overlap on an idle player run play_next once: a
\* track is handed to the guild's player only while the player plays nothing and
\* no other track is being started, so that no track which was started is
\* replaced by the track of the other command.
C26_IdlePlayerStartedOnce ==
    [][\A g \in MusicGuilds :
          played'[g] # played[g] => voice[g].current = Nothing /\ starting[g] = <<>>]_vars

====
